---- MODULE Spec2Model ----
(***************************************************************************)
(* Market Decision Lab: the bar-by-bar simulation engine                   *)
(* (core/market_decision_lab/strategy_backtest.py: run_backtest_signals,   *)
(*  core/market_decision_lab/backtest.py: run_backtest).                   *)
(*                                                                         *)
(* Prices, cash and units are Python floats in the program.  They are      *)
(* modelled as exact rationals <<numerator, denominator>>, denominator     *)
(* > 0, in lowest terms; NaN is the pair <<0, 0>>.                         *)
(*                                                                         *)
(* The candle series is an argument of the call.  Its length len_df is     *)
(* fixed before the call; its rows are materialised in df when the loop    *)
(* first reads them (row i+1 is read at bar i for the next_open fill), so  *)
(* every series of the bounded family is explored.                         *)
(***************************************************************************)
EXTENDS Integers, Sequences, FiniteSets, TLC

\* ------------------------------------------------------------------------
\* Bounds of the model
\* ------------------------------------------------------------------------
MaxTail == 2
MaxCooldown == 1
MaxTailTwice == 1
MaxAnn == 3
MaxRuns == 3
MaxTopN == 3
MaxNegRuns == 2
MaxBars == 4
MaxWindow == 2
MaxTrades == 3
MaxRetries == 3
MaxTradeRows == 2
MaxSubmits == 3
\* Nesting depth of the values handed to sanitize_meta.
MaxDepth == 4

\* ------------------------------------------------------------------------
\* Exact rational arithmetic standing for float arithmetic
\* ------------------------------------------------------------------------
Abs(x) == IF x < 0 THEN -x ELSE x

RECURSIVE GCD(_, _)
GCD(a, b) == IF b = 0 THEN a ELSE GCD(b, a % b)

NaN == <<0, 0>>
isnan(x) == x[2] = 0

Norm(n, d) == LET g == GCD(Abs(n), d) IN <<n \div g, d \div g>>
Q(n) == <<n, 1>>
Frac(n, d) == Norm(n, d)
Zero == Q(0)

RNeg(x) == <<-x[1], x[2]>>
RAdd(x, y) ==
    LET g == GCD(x[2], y[2])
        l == (x[2] \div g) * y[2]
    IN  IF isnan(x) \/ isnan(y) THEN NaN
        ELSE Norm(x[1] * (l \div x[2]) + y[1] * (l \div y[2]), l)
RSub(x, y) == RAdd(x, RNeg(y))
RMul(x, y) ==
    LET g1 == GCD(Abs(x[1]), y[2])
        g2 == GCD(Abs(y[1]), x[2])
    IN  IF isnan(x) \/ isnan(y) THEN NaN
        ELSE IF x[1] = 0 \/ y[1] = 0 THEN <<0, 1>>
        ELSE <<(x[1] \div g1) * (y[1] \div g2), (x[2] \div g2) * (y[2] \div g1)>>
RInv(x) == IF x[1] < 0 THEN <<-x[2], -x[1]>> ELSE <<x[2], x[1]>>
RDiv(x, y) == RMul(x, RInv(y))
RLt(x, y) == x[1] * y[2] < y[1] * x[2]
RLe(x, y) == x[1] * y[2] <= y[1] * x[2]
RGe(x, y) == RLe(y, x)
RGt(x, y) == RLt(y, x)
RAbs(x) == <<Abs(x[1]), x[2]>>
RMax(x, y) == IF RLt(x, y) THEN y ELSE x

RECURSIVE RSum(_)
RSum(s) == IF s = << >> THEN Zero ELSE RAdd(s[1], RSum(Tail(s)))

\* round(float(x), 8): x to 8 decimal places, ties to even.  The digits are
\* produced by long division, one at a time.
RoundDigits == 8
RECURSIVE LongDiv(_, _, _, _)
LongDiv(q, r, d, k) ==
    IF k = 0 THEN <<q, r>>
    ELSE LongDiv(q * 10 + ((r * 10) \div d), (r * 10) % d, d, k - 1)
RECURSIVE Pow10(_)
Pow10(k) == IF k = 0 THEN 1 ELSE 10 * Pow10(k - 1)
Round8(x) ==
    LET ip == x[1] \div x[2]
        rem == x[1] - ip * x[2]
        qr == LongDiv(0, rem, x[2], RoundDigits)
        up == \/ 2 * qr[2] > x[2]
              \/ 2 * qr[2] = x[2] /\ qr[1] % 2 = 1
        q == IF up THEN qr[1] + 1 ELSE qr[1]
    IN  RAdd(Q(ip), Norm(q, Pow10(RoundDigits)))

\* ------------------------------------------------------------------------
\* Inputs: candles, signals, parameters
\* ------------------------------------------------------------------------
REQUIRED_COLUMNS == {"ts", "open", "high", "low", "close"}
AllColumns == REQUIRED_COLUMNS \cup {"volume"}

AtrWindow == 14

Candle(o, h, l, c) == [open |-> Q(o), high |-> Q(h), low |-> Q(l), close |-> Q(c)]

\* Candles of the bounded input family.  With the ranged warm-up candle the
\* 14-bar ATR is about 2, so around a fill at 8 the stop is near 6 and the
\* target near 12: Down breaches the stop only, Up the target only, Wide both,
\* Flat neither.
FlatCandle == Candle(8, 8, 8, 8)
RangedCandle == Candle(8, 9, 7, 8)
DownCandle == Candle(8, 8, 4, 6)
UpCandle == Candle(8, 14, 8, 10)
WideCandle == Candle(8, 14, 4, 8)
TailCandles == {FlatCandle, DownCandle, UpCandle, WideCandle}
\* Two continuations that differ in their open: the bar after a warm-up of
\* TallCandle opens at 8 or at 9.
TallCandle == Candle(8, 10, 7, 8)
OpenHigherCandle == Candle(9, 9, 9, 9)
OpenCandles == {FlatCandle, OpenHigherCandle}

\* The (entry, exit) signal values of a free bar.  A bar with both values
\* false is left out: the engine reads the exit value only while a position
\* is open and no stop or target is hit, and the entry value only while flat,
\* so on every state such a bar acts as one of these three does.
SignalPairs == {<<TRUE, FALSE>>, <<FALSE, TRUE>>, <<TRUE, TRUE>>}

\* A flat warm-up continues flat (the zero-volatility series); a ranged one
\* continues with any candle.
TailOf(c) ==
    IF c = FlatCandle THEN {FlatCandle}
    ELSE IF c = TallCandle THEN OpenCandles
    ELSE TailCandles

\* A series is a warm-up of w.len copies of one candle (entry signal w.entry,
\* exit signal false) followed by up to MaxTail free bars.
\* The warm-up candle at position k is the candle moved up by k * w.step.
WarmUps ==
    [len : {0, AtrWindow}, candle : {FlatCandle, RangedCandle}, entry : BOOLEAN,
     step : {0}]

\* The five-bar series: four bars whose closes rise by w.step, then one free bar.
RisingWarmUps ==
    [len : {4}, candle : {RangedCandle}, entry : {FALSE}, step : {1, 2}]

\* The series one bar short of the ATR window: flat or rising closes, the
\* entry signal false or true on every bar.
ShortWarmUps ==
    [len : {AtrWindow - 1}, candle : {RangedCandle}, entry : BOOLEAN,
     step : {0, 1}]

\* Fourteen bars, flat or rising, before one bar that opens at 8 or at 9.
OpenWarmUps ==
    [len : {AtrWindow}, candle : {TallCandle}, entry : BOOLEAN, step : {0, 1}]

\* The candle c moved up by d.
Risen(c, d) ==
    [open |-> RAdd(c.open, Q(d)), high |-> RAdd(c.high, Q(d)),
     low |-> RAdd(c.low, Q(d)), close |-> RAdd(c.close, Q(d))]

Engines == {"signals", "quick"}

NoParams == [none |-> TRUE]
ParamSets(eng) ==
    [ema_window : {3},
     signal_mode : IF eng = "quick" THEN {"strict", "relaxed"} ELSE {"strict"},
     entry_mode : {"next_open", "signal_close"},
     sl_mult : {Q(1)},
     tp_mult : {Q(2)},
     fee_per_side : {Zero, Frac(1, 2)},
     slippage_per_side : {Zero, Frac(1, 3)},
     initial_cash : {Q(1)},
     cooldown_candles : {0, MaxCooldown}]

\* The parameters paired with the inputs that fail validation.
DefaultLike ==
    [ema_window |-> 3, signal_mode |-> "strict", entry_mode |-> "next_open",
     sl_mult |-> Q(1), tp_mult |-> Q(2), fee_per_side |-> Zero,
     slippage_per_side |-> Zero, initial_cash |-> Q(1), cooldown_candles |-> 0]

Defects ==
    {"none", "no_columns", "no_ts", "no_open", "no_high", "no_low", "no_close",
     "entry_short", "entry_long", "exit_short", "exit_long",
     "entry_nan", "exit_nan", "no_params"}

VARIABLES
    engine,          \* which function is called
    params,          \* BacktestParams, or NoParams for None
    warm,            \* the warm-up part of the series
    len_df,          \* len(ohlcv_df)
    columns,         \* set(ohlcv_df.columns)
    len_entry,       \* len(entry_signal)
    len_exit,        \* len(exit_signal)
    nan_entry,       \* entry_signal.isna().any()
    nan_exit,        \* exit_signal.isna().any()
    ohlcv_df,        \* rows of the series materialised so far
    entry_signal,    \* entry signal values materialised so far
    exit_signal,     \* exit signal values materialised so far
    calls,           \* 1 during the first call, 2 during a repeated call
    first,           \* result of the first call, once it is repeated
    df,              \* the function's copy of the rows, with indicator columns
    pc,              \* "call", "loop", "done", "error"
    err,             \* the exception raised, "" if none
    i,               \* loop index
    cash, units, in_position, cooldown,
    entry_price_raw, entry_price_cost, entry_ts, sl, tp,
    trades, states,
    fees_paid,       \* history: sum of the fees charged
    fills            \* history: number of entry fills

\* The decision layer (decision.py).
VARIABLES
    config,          \* the thresholds of the config module
    scenarios_dict,  \* the scenarios evaluated so far, in insertion order
    final            \* the value returned by final_decision, NoFinal before

VARIABLES
    pool,            \* the metrics bundles the backtests of this sweep produce
    candidates,      \* the candidates list of run_scenarios
    picked           \* positions in candidates of the scenarios A, B and C

VARIABLES
    lab,             \* the arguments of run_strategy_lab, NoLab before
    lab_seen,        \* the metrics each candidate's backtest gives on these candles
    rows,            \* the rows list of run_strategy_lab
    details,         \* the details dict, in insertion order
    top,             \* the value returned (or the error raised), NoTop before
    lab_first        \* the value returned by the first call, NoTop before

\* The smaller units: each keeps its arguments, locals and result in one record.
VARIABLES
    gen,             \* generate_candidates: which module, max_runs, the lists returned
    sgn,             \* the signal builders: family, candles, the signals returned
    met,             \* summarize_metrics: the trades and the metrics returned
    fetch,           \* fetch_with_retries: fn's script, attempt, delay, outcome
    store,           \* storage: the runs and trades tables, the save in progress
    session,         \* the dashboard session_state and the guard's answer
    sweep,           \* a sweep over sibling evaluations and what its caller got
    meta             \* sanitize_meta: the value given and the value returned

inputs == <<engine, params, warm, len_df, columns, len_entry, len_exit,
            nan_entry, nan_exit>>
locals == <<cash, units, in_position, cooldown, entry_price_raw,
            entry_price_cost, entry_ts, sl, tp, trades, states, fees_paid, fills>>
args == <<ohlcv_df, entry_signal, exit_signal>>
engine_vars == <<inputs, args, calls, first, df, pc, err, i, locals>>
decision_vars == <<config, scenarios_dict, final>>
scenario_vars == <<pool, candidates, picked>>
lab_vars == <<lab, lab_seen, rows, details, top, lab_first>>
unit_vars == <<gen, sgn, met, fetch, store, session, sweep, meta>>
vars == <<engine_vars, decision_vars, scenario_vars, lab_vars, unit_vars>>

\* What each part of the program leaves alone.
outside_engine == <<decision_vars, scenario_vars, lab_vars, unit_vars>>
outside_decision == <<engine_vars, scenario_vars, lab_vars, unit_vars>>
outside_scenarios == <<engine_vars, scenarios_dict, final, lab_vars, unit_vars>>
outside_lab == <<engine_vars, decision_vars, scenario_vars, unit_vars>>
outside_units == <<engine_vars, decision_vars, scenario_vars, lab_vars>>

\* The decision layer before any call of it.
NoConfig == [none |-> TRUE]
NoFinal == [label |-> "", recommended |-> ""]
DecisionIdle ==
    /\ config = NoConfig
    /\ scenarios_dict = << >>
    /\ final = NoFinal

\* The scenario sweep before any call of it.
NoPicked == [A |-> 0, B |-> 0, C |-> 0]
ScenariosIdle ==
    /\ pool = {}
    /\ candidates = << >>
    /\ picked = NoPicked

\* The strategy lab before any call of it.
NoLab == [none |-> TRUE]
NoTop == [none |-> TRUE]
LabIdle ==
    /\ lab = NoLab
    /\ lab_seen = << >>
    /\ rows = << >>
    /\ details = << >>
    /\ top = NoTop
    /\ lab_first = NoTop

\* The smaller units before any call of them; me names the unit a
\* specification is about, which starts elsewhere.
NoUnit == [none |-> TRUE]
UnitsIdleBut(me) ==
    /\ IF me = "gen" THEN TRUE ELSE gen = NoUnit
    /\ IF me = "sgn" THEN TRUE ELSE sgn = NoUnit
    /\ IF me = "met" THEN TRUE ELSE met = NoUnit
    /\ IF me = "fetch" THEN TRUE ELSE fetch = NoUnit
    /\ IF me = "store" THEN TRUE ELSE store = NoUnit
    /\ IF me = "session" THEN TRUE ELSE session = NoUnit
    /\ IF me = "sweep" THEN TRUE ELSE sweep = NoUnit
    /\ IF me = "meta" THEN TRUE ELSE meta = NoUnit
UnitsIdle == UnitsIdleBut("")
UnitsUnchangedBut(me) ==
    /\ IF me = "gen" THEN TRUE ELSE UNCHANGED gen
    /\ IF me = "sgn" THEN TRUE ELSE UNCHANGED sgn
    /\ IF me = "met" THEN TRUE ELSE UNCHANGED met
    /\ IF me = "fetch" THEN TRUE ELSE UNCHANGED fetch
    /\ IF me = "store" THEN TRUE ELSE UNCHANGED store
    /\ IF me = "session" THEN TRUE ELSE UNCHANGED session
    /\ IF me = "sweep" THEN TRUE ELSE UNCHANGED sweep
    /\ IF me = "meta" THEN TRUE ELSE UNCHANGED meta

\* ------------------------------------------------------------------------
\* The input family: rows and signal values by position
\* ------------------------------------------------------------------------
\* Timestamps are strictly increasing: the row at position k carries ts k.
MkRow(k, c) ==
    [ts |-> k, open |-> c.open, high |-> c.high, low |-> c.low, close |-> c.close]

\* What position k (0-based) of the inputs holds: the row and, for
\* run_backtest_signals, the two signal values.  A position read before keeps
\* its content; one read for the first time can hold any bar of the family.
RowChoices(k) ==
    IF k < Len(ohlcv_df)
    THEN {[row |-> ohlcv_df[k + 1],
           entry |-> IF engine = "signals" THEN entry_signal[k + 1] ELSE FALSE,
           exit |-> IF engine = "signals" THEN exit_signal[k + 1] ELSE FALSE]}
    ELSE IF k < warm.len
    THEN {[row |-> MkRow(k, Risen(warm.candle, k * warm.step)),
           entry |-> warm.entry, exit |-> FALSE]}
    ELSE IF engine = "quick"
         THEN {[row |-> MkRow(k, c), entry |-> FALSE, exit |-> FALSE] :
                 c \in TailOf(warm.candle)}
         ELSE {[row |-> MkRow(k, c), entry |-> sg[1], exit |-> sg[2]] :
                 c \in TailOf(warm.candle), sg \in SignalPairs}

\* ------------------------------------------------------------------------
\* Indicators
\* ------------------------------------------------------------------------
\* True range of the row at 1-based position k: the row-wise max skips the
\* NaN that shift(1) leaves in the first row.
TrueRange(d, k) ==
    LET hl == RSub(d[k].high, d[k].low)
    IN  IF k = 1 THEN hl
        ELSE RMax(hl, RMax(RAbs(RSub(d[k].high, d[k - 1].close)),
                           RAbs(RSub(d[k].low, d[k - 1].close))))

\* Variant with min_periods = 1: the mean of the rows there are.
_atr_partial(d, window) ==
    [k \in 1..Len(d) |->
        LET n == IF k < window THEN k ELSE window
        IN  RDiv(RSum([j \in 1..n |-> TrueRange(d, k - n + j)]), Q(n))]
\* _atr(df, window): rolling mean with min_periods = window.
_atr(d, window) ==
    [k \in 1..Len(d) |->
        IF k < window THEN NaN
        ELSE RDiv(RSum([j \in 1..window |-> TrueRange(d, k - window + j)]),
                  Q(window))]

\* df["close"].ewm(span, adjust=False).mean(): the value of the row that
\* follows the rows d, whose close is close_p.
Ewm(d, close_p, span) ==
    IF d = << >> THEN close_p
    ELSE LET alpha == Frac(2, span + 1)
         IN  RAdd(RMul(alpha, close_p), RMul(RSub(Q(1), alpha), d[Len(d)].ema))

\* The row r as the frame holds it after df["ema"] = ... and df["atr"] = ...,
\* d being the rows before it (run_backtest_signals adds no ema column).
WithIndicators(d, r, eng, span) ==
    [ts |-> r.ts, open |-> r.open, high |-> r.high, low |-> r.low,
     close |-> r.close,
     ema |-> IF eng = "quick" THEN Ewm(d, r.close, span) ELSE NaN,
     atr |-> _atr(Append(d, r), AtrWindow)[Len(d) + 1]]

\* _entry_signal(df, idx, mode) and _exit_signal(df, idx, mode), idx 0-based.
\* Variant without the two-bar confirmation.
_entry_signal_one_bar(d, idx, mode) == RGt(d[idx + 1].close, d[idx + 1].ema)
_entry_signal(d, idx, mode) ==
    IF mode = "strict"
    THEN IF idx < 1 THEN FALSE
         ELSE /\ RGt(d[idx + 1].close, d[idx + 1].ema)
              /\ RGt(d[idx].close, d[idx].ema)
    ELSE RGt(d[idx + 1].close, d[idx + 1].ema)

_exit_signal(d, idx, mode) ==
    IF mode = "strict"
    THEN IF idx < 1 THEN FALSE
         ELSE /\ RLt(d[idx + 1].close, d[idx + 1].ema)
              /\ RLt(d[idx].close, d[idx].ema)
    ELSE RLt(d[idx + 1].close, d[idx + 1].ema)

\* ------------------------------------------------------------------------
\* Validation
\* ------------------------------------------------------------------------
\* ohlcv_df.empty: no rows or no columns.
DfEmpty(n, cols) == n = 0 \/ cols = {}

\* Variant that tests the entry signal only.
_validate_inputs_entry_only(n, cols, ne, nx, nane, nanx) ==
    IF DfEmpty(n, cols) THEN "Input OHLCV data is empty"
    ELSE IF REQUIRED_COLUMNS \ cols # {}
         THEN "Input OHLCV data is missing required columns"
    ELSE IF ne # n THEN "Entry signal length must match OHLCV length"
    ELSE IF nane THEN "Signals must not contain NaN values"
    ELSE ""
\* _validate_inputs: the message of the ValueError raised, "" if none.
\* The message for missing columns is modelled without its list of names.
_validate_inputs(n, cols, ne, nx, nane, nanx) ==
    IF DfEmpty(n, cols) THEN "Input OHLCV data is empty"
    ELSE IF REQUIRED_COLUMNS \ cols # {}
         THEN "Input OHLCV data is missing required columns"
    ELSE IF ne # n THEN "Entry signal length must match OHLCV length"
    ELSE IF nx # n THEN "Exit signal length must match OHLCV length"
    ELSE IF nane \/ nanx THEN "Signals must not contain NaN values"
    ELSE ""

\* The checks made before the loop by each function.
EntryChecks(eng, p, n, cols, ne, nx, nane, nanx) ==
    IF eng = "signals"
    THEN LET v == _validate_inputs(n, cols, ne, nx, nane, nanx)
         IN  IF v # "" THEN v
             ELSE IF p = NoParams THEN "params is required" ELSE ""
    ELSE IF DfEmpty(n, cols) THEN "Input OHLCV data is empty" ELSE ""

\* ------------------------------------------------------------------------
\* The steps of one bar
\* ------------------------------------------------------------------------
NoExit == [price |-> NaN, reason |-> "none"]
NoTs == -1

\* Variant that tests the target before the stop.
ExitDecisionTargetFirst(low_p, high_p, close_p, stop, target, exit_sig) ==
    IF RGe(high_p, target) THEN [price |-> target, reason |-> "take_profit"]
    ELSE IF RLe(low_p, stop) THEN [price |-> stop, reason |-> "stop_loss"]
    ELSE IF exit_sig THEN [price |-> close_p, reason |-> "signal_exit"]
    ELSE NoExit
\* Variant that reads the exit signal before the stop and the target.
ExitDecisionSignalFirst(low_p, high_p, close_p, stop, target, exit_sig) ==
    IF exit_sig THEN [price |-> close_p, reason |-> "signal_exit"]
    ELSE IF RLe(low_p, stop) THEN [price |-> stop, reason |-> "stop_loss"]
    ELSE IF RGe(high_p, target) THEN [price |-> target, reason |-> "take_profit"]
    ELSE NoExit
\* The exit chosen for a bar on which a position is open.
ExitDecision(low_p, high_p, close_p, stop, target, exit_sig) ==
    IF RLe(low_p, stop) /\ RGe(high_p, target)
    THEN [price |-> stop, reason |-> "stop_loss"]
    ELSE IF RLe(low_p, stop) THEN [price |-> stop, reason |-> "stop_loss"]
    ELSE IF RGe(high_p, target) THEN [price |-> target, reason |-> "take_profit"]
    ELSE IF exit_sig THEN [price |-> close_p, reason |-> "signal_exit"]
    ELSE NoExit

\* The trade record appended when a position is closed at exit_price_raw.
TradeRecord(e_ts, x_ts, e_raw, e_cost, exit_price_raw, n_units, slip, reason, stop, target) ==
    LET effective_exit == RMul(exit_price_raw, RSub(Q(1), slip))
    IN  [entry_ts |-> e_ts,
         exit_ts |-> x_ts,
         entry |-> Round8(e_raw),
         exit |-> Round8(exit_price_raw),
         pnl |-> RMul(n_units, RSub(effective_exit, e_cost)),
         pnl_pct |-> RMul(RDiv(RSub(effective_exit, e_cost), e_cost), Q(100)),
         reason |-> reason,
         sl |-> stop,
         tp |-> target]

\* Cash after closing n_units at exit_price_raw, and the fee charged.
ExitFee(n_units, exit_price_raw, p) ==
    RMul(RMul(n_units, RMul(exit_price_raw, RSub(Q(1), p.slippage_per_side))),
         p.fee_per_side)
\* Variant that keeps the gross proceeds.
ExitCashGross(n_units, exit_price_raw, p) ==
    RMul(n_units, RMul(exit_price_raw, RSub(Q(1), p.slippage_per_side)))
ExitCash(n_units, exit_price_raw, p) ==
    RSub(RMul(n_units, RMul(exit_price_raw, RSub(Q(1), p.slippage_per_side))),
         ExitFee(n_units, exit_price_raw, p))

\* Variant that reads row idx + 1 without testing it exists.
EntryFillUnchecked(d, idx, n, entry_mode) ==
    IF entry_mode = "next_open"
    THEN IF idx + 1 < n
         THEN [raw |-> d[idx + 2].open, ts |-> d[idx + 2].ts, oob |-> FALSE]
         ELSE [raw |-> NaN, ts |-> NoTs, oob |-> TRUE]
    ELSE [raw |-> d[idx + 1].close, ts |-> d[idx + 1].ts, oob |-> FALSE]
\* Variant that stamps a next_open fill one bar too late.
EntryFillStampedLate(d, idx, n, entry_mode) ==
    IF entry_mode = "next_open"
    THEN IF idx + 1 < n
         THEN [raw |-> d[idx + 2].open, ts |-> d[idx + 2].ts + 1, oob |-> FALSE]
         ELSE [raw |-> d[idx + 1].close, ts |-> d[idx + 1].ts, oob |-> FALSE]
    ELSE [raw |-> d[idx + 1].close, ts |-> d[idx + 1].ts, oob |-> FALSE]
\* The fill of an entry decided at bar idx (0-based) of a series of n rows:
\* oob tells a read of a row the series does not have.
EntryFill(d, idx, n, entry_mode) ==
    IF entry_mode = "next_open"
    THEN IF idx + 1 < n
         THEN [raw |-> d[idx + 2].open, ts |-> d[idx + 2].ts, oob |-> FALSE]
         ELSE [raw |-> d[idx + 1].close, ts |-> d[idx + 1].ts, oob |-> FALSE]
    ELSE [raw |-> d[idx + 1].close, ts |-> d[idx + 1].ts, oob |-> FALSE]

\* The entry gate: flat, cooldown over, ATR defined.
CanEnter(inpos, cd, atr) == (~inpos) /\ cd <= 0 /\ ~isnan(atr)

\* The cooldown counter at the end of a bar.
NextCooldown(cd, inpos) == IF cd > 0 /\ ~inpos THEN cd - 1 ELSE cd

\* The reason recorded for the position closed after the last bar.
\* Variant tag.
FinalReasonSignal == "signal_exit"
FinalReason == "end_of_test"

\* Variant that appends a sample for the forced close.
CloseLastSampleAppended(st, v) == Append(st, [st[Len(st)] EXCEPT !.equity = v])
\* The trace after the forced close: the last sample's equity becomes the cash.
CloseLastSample(st, v) == [st EXCEPT ![Len(st)].equity = v]

\* ------------------------------------------------------------------------
\* State machine
\* ------------------------------------------------------------------------
NoResult == [states |-> << >>, trades |-> << >>, none |-> TRUE]

\* The arguments after position k has been read as nxt.
Materialise(seq, k, v) == IF k < Len(seq) THEN seq ELSE Append(seq, v)

\* Variant whose trade list outlives the call.
FreshLocalsKeepingTrades(p) ==
    [cash |-> p.initial_cash, units |-> Zero, in_position |-> FALSE,
     cooldown |-> 0, entry_price_raw |-> NaN, entry_price_cost |-> NaN,
     entry_ts |-> NoTs, sl |-> NaN, tp |-> NaN, trades |-> trades,
     states |-> << >>]
\* The values the locals are given before the loop.
FreshLocals(p) ==
    [cash |-> p.initial_cash, units |-> Zero, in_position |-> FALSE,
     cooldown |-> 0, entry_price_raw |-> NaN, entry_price_cost |-> NaN,
     entry_ts |-> NoTs, sl |-> NaN, tp |-> NaN, trades |-> << >>,
     states |-> << >>]

\* The arguments of one call, before the call.
InitOver(Ws, Ts) ==
    \E eng \in Engines, w \in Ws, t \in Ts, dft \in Defects :
    \E p \in ParamSets(eng) :
        /\ DecisionIdle
        /\ ScenariosIdle
        /\ LabIdle
        /\ UnitsIdle
        /\ w.len = 0 => (w.candle = RangedCandle /\ ~w.entry)
        \* a series shorter than the ATR window never trades: one fee, one cooldown
        /\ w.len = 0 => (p.fee_per_side = Zero /\ p.cooldown_candles = 0)
        /\ eng = "quick" => (dft = "none" /\ ~w.entry)
        /\ (p.fee_per_side = Zero) <=> (p.slippage_per_side = Zero)
        /\ dft # "none" => (p = DefaultLike /\ ~w.entry /\ w.candle = RangedCandle)
        /\ dft \in {"entry_nan", "exit_nan", "entry_short", "exit_short"}
              => w.len + t > 0
        /\ engine = eng
        /\ params = IF dft = "no_params" THEN NoParams ELSE p
        /\ warm = w
        /\ len_df = w.len + t
        /\ columns = CASE dft = "no_columns" -> {}
                       [] dft = "no_ts" -> AllColumns \ {"ts"}
                       [] dft = "no_open" -> AllColumns \ {"open"}
                       [] dft = "no_high" -> AllColumns \ {"high"}
                       [] dft = "no_low" -> AllColumns \ {"low"}
                       [] dft = "no_close" -> AllColumns \ {"close"}
                       [] OTHER -> AllColumns
        /\ len_entry = CASE eng = "quick" -> 0
                         [] dft = "entry_short" -> w.len + t - 1
                         [] dft = "entry_long" -> w.len + t + 1
                         [] OTHER -> w.len + t
        /\ len_exit = CASE eng = "quick" -> 0
                        [] dft = "exit_short" -> w.len + t - 1
                        [] dft = "exit_long" -> w.len + t + 1
                        [] OTHER -> w.len + t
        /\ nan_entry = (dft = "entry_nan")
        /\ nan_exit = (dft = "exit_nan")
        /\ ohlcv_df = << >>
        /\ entry_signal = << >>
        /\ exit_signal = << >>
        /\ calls = 1
        /\ first = NoResult
        /\ df = << >>
        /\ pc = "call"
        /\ err = ""
        /\ i = 0
        /\ cash = NaN
        /\ units = NaN
        /\ in_position = FALSE
        /\ cooldown = 0
        /\ entry_price_raw = NaN
        /\ entry_price_cost = NaN
        /\ entry_ts = NoTs
        /\ sl = NaN
        /\ tp = NaN
        /\ trades = << >>
        /\ states = << >>
        /\ fees_paid = Zero
        /\ fills = 0

Init == InitOver(WarmUps, 0..MaxTail)

\* Function entry: the checks, the copy of the frame with its indicator
\* columns, then the initial values of the locals.
Call ==
    /\ pc = "call"
    /\ UNCHANGED outside_engine
    /\ LET v == EntryChecks(engine, params, len_df, columns, len_entry, len_exit,
                            nan_entry, nan_exit)
       IN  IF v # ""
           THEN /\ pc' = "error"
                /\ err' = v
                /\ UNCHANGED <<inputs, args, calls, first, df, i, locals>>
           ELSE \E nxt \in RowChoices(0) :
                \E F \in {FreshLocals(params)} :
                /\ pc' = "loop"
                /\ ohlcv_df' = Materialise(ohlcv_df, 0, nxt.row)
                /\ entry_signal' = IF engine = "signals"
                                   THEN Materialise(entry_signal, 0, nxt.entry)
                                   ELSE entry_signal
                /\ exit_signal' = IF engine = "signals"
                                  THEN Materialise(exit_signal, 0, nxt.exit)
                                  ELSE exit_signal
                /\ df' = <<WithIndicators(<< >>, nxt.row, engine,
                                          params.ema_window)>>
                /\ i' = 0
                /\ cash' = F.cash
                /\ units' = F.units
                /\ in_position' = F.in_position
                /\ cooldown' = F.cooldown
                /\ entry_price_raw' = F.entry_price_raw
                /\ entry_price_cost' = F.entry_price_cost
                /\ entry_ts' = F.entry_ts
                /\ sl' = F.sl
                /\ tp' = F.tp
                /\ trades' = F.trades
                /\ states' = F.states
                /\ fees_paid' = Zero
                /\ fills' = 0
                /\ UNCHANGED <<inputs, calls, first, err>>

\* The locals of the loop as one value.
Locals ==
    [cash |-> cash, units |-> units, in_position |-> in_position,
     cooldown |-> cooldown, entry_price_raw |-> entry_price_raw,
     entry_price_cost |-> entry_price_cost, entry_ts |-> entry_ts,
     sl |-> sl, tp |-> tp, trades |-> trades, fees_paid |-> fees_paid,
     fills |-> fills, action |-> "HOLD", oob |-> FALSE]

\* The exit block of a bar: "if in_position: ...".
ExitBlock(L, row, exit_sig, p) ==
    LET dec == IF L.in_position
               THEN ExitDecision(row.low, row.high, row.close, L.sl, L.tp, exit_sig)
               ELSE NoExit
    IN  IF dec.reason = "none" THEN L
        ELSE [L EXCEPT
                !.cash = ExitCash(L.units, dec.price, p),
                !.fees_paid = RAdd(L.fees_paid, ExitFee(L.units, dec.price, p)),
                !.trades = Append(L.trades,
                                  TradeRecord(L.entry_ts, row.ts, L.entry_price_raw,
                                              L.entry_price_cost, dec.price, L.units,
                                              p.slippage_per_side, dec.reason,
                                              L.sl, L.tp)),
                !.units = Zero,
                !.in_position = FALSE,
                !.cooldown = p.cooldown_candles,
                !.action = "EXIT:" \o dec.reason]

\* Variant: the entry leaves the cash where it was.
EntryBlockKeepingCash(L, d, idx, n, atr, p) ==
    LET fill == EntryFill(d, idx, n, p.entry_mode)
        fill_cost == RMul(fill.raw, RAdd(Q(1), p.slippage_per_side))
        fee == RMul(L.cash, p.fee_per_side)
        spendable == RSub(L.cash, fee)
    IN  IF fill.oob THEN [L EXCEPT !.oob = TRUE]
        ELSE IF ~RGt(spendable, Zero) THEN L
        ELSE [L EXCEPT
                !.units = RDiv(spendable, fill_cost),
                !.in_position = TRUE,
                !.entry_price_raw = fill.raw,
                !.entry_price_cost = fill_cost,
                !.entry_ts = fill.ts,
                !.sl = RSub(fill.raw, RMul(p.sl_mult, atr)),
                !.tp = RAdd(fill.raw, RMul(p.tp_mult, atr)),
                !.fees_paid = RAdd(L.fees_paid, fee),
                !.fills = L.fills + 1,
                !.action = "ENTRY"]

\* The entry block of a bar, entered when the gate is open and the entry
\* signal is true.
EntryBlock(L, d, idx, n, atr, p) ==
    LET fill == EntryFill(d, idx, n, p.entry_mode)
        fill_cost == RMul(fill.raw, RAdd(Q(1), p.slippage_per_side))
        fee == RMul(L.cash, p.fee_per_side)
        spendable == RSub(L.cash, fee)
    IN  IF fill.oob THEN [L EXCEPT !.oob = TRUE]
        ELSE IF ~RGt(spendable, Zero) THEN L
        ELSE [L EXCEPT
                !.units = RDiv(spendable, fill_cost),
                !.cash = Zero,
                !.in_position = TRUE,
                !.entry_price_raw = fill.raw,
                !.entry_price_cost = fill_cost,
                !.entry_ts = fill.ts,
                !.sl = RSub(fill.raw, RMul(p.sl_mult, atr)),
                !.tp = RAdd(fill.raw, RMul(p.tp_mult, atr)),
                !.fees_paid = RAdd(L.fees_paid, fee),
                !.fills = L.fills + 1,
                !.action = "ENTRY"]

\* The equity sample of a bar.
Sample(L, row, p) ==
    LET mark_price == IF L.in_position
                      THEN RMul(row.close, RSub(Q(1), p.slippage_per_side))
                      ELSE row.close
    IN  [ts |-> row.ts, close |-> row.close, ema |-> row.ema, atr |-> row.atr,
         equity |-> RAdd(L.cash, RMul(L.units, mark_price)),
         position |-> IF L.in_position THEN 1 ELSE 0,
         action |-> L.action,
         sl |-> IF L.in_position THEN L.sl ELSE NaN,
         tp |-> IF L.in_position THEN L.tp ELSE NaN]

\* One iteration of the loop over the rows: exit block, entry block, cooldown
\* decrement, equity sample.
LoopBar ==
    /\ pc = "loop"
    /\ i < len_df
    /\ UNCHANGED outside_engine
    /\ \E nxt \in (IF i + 1 < len_df THEN RowChoices(i + 1) ELSE {NoParams}) :
       \E d \in {IF i + 1 < len_df
                 THEN Append(df, WithIndicators(df, nxt.row, engine,
                                                params.ema_window))
                 ELSE df} :
       \E es \in {IF i + 1 < len_df /\ engine = "signals"
                  THEN Materialise(entry_signal, i + 1, nxt.entry)
                  ELSE entry_signal} :
       \E xs \in {IF i + 1 < len_df /\ engine = "signals"
                  THEN Materialise(exit_signal, i + 1, nxt.exit)
                  ELSE exit_signal} :
       \E atr \in {d[i + 1].atr} :
       \E L1 \in {ExitBlock(Locals, d[i + 1],
                            IF ~in_position THEN FALSE
                            ELSE IF engine = "signals" THEN xs[i + 1]
                            ELSE _exit_signal(d, i, params.signal_mode),
                            params)} :
       \E L2 \in {IF /\ CanEnter(L1.in_position, L1.cooldown, atr)
                     /\ IF engine = "signals" THEN es[i + 1]
                        ELSE _entry_signal(d, i, params.signal_mode)
                  THEN EntryBlock(L1, d, i, len_df, atr, params)
                  ELSE L1} :
           IF L2.oob
           THEN \* df.loc[i + 1] past the last row raises KeyError
                /\ pc' = "error"
                /\ err' = "KeyError"
                /\ UNCHANGED <<inputs, args, calls, first, df, i, locals>>
           ELSE /\ ohlcv_df' = IF i + 1 < len_df
                               THEN Materialise(ohlcv_df, i + 1, nxt.row)
                               ELSE ohlcv_df
                /\ entry_signal' = es
                /\ exit_signal' = xs
                /\ df' = d
                /\ cash' = L2.cash
                /\ units' = L2.units
                /\ in_position' = L2.in_position
                /\ cooldown' = NextCooldown(L2.cooldown, L2.in_position)
                /\ entry_price_raw' = L2.entry_price_raw
                /\ entry_price_cost' = L2.entry_price_cost
                /\ entry_ts' = L2.entry_ts
                /\ sl' = L2.sl
                /\ tp' = L2.tp
                /\ trades' = L2.trades
                /\ states' = Append(states, Sample(L2, d[i + 1], params))
                /\ fees_paid' = L2.fees_paid
                /\ fills' = L2.fills
                /\ i' = i + 1
                /\ UNCHANGED <<inputs, calls, first, pc, err>>

\* The equity sample LoopBar appends for the bar at hand (0-based i) when
\* the row after it is next_row.
BarSample(next_row) ==
    LET d == Append(df, WithIndicators(df, next_row, engine, params.ema_window))
        L1 == ExitBlock(Locals, d[i + 1],
                        IF ~in_position THEN FALSE
                        ELSE IF engine = "signals" THEN exit_signal[i + 1]
                        ELSE _exit_signal(d, i, params.signal_mode),
                        params)
        L2 == IF /\ CanEnter(L1.in_position, L1.cooldown, d[i + 1].atr)
                 /\ IF engine = "signals" THEN entry_signal[i + 1]
                    ELSE _entry_signal(d, i, params.signal_mode)
              THEN EntryBlock(L1, d, i, len_df, d[i + 1].atr, params)
              ELSE L1
    IN  Sample(L2, d[i + 1], params)

\* Variant without the forced close.
FinishLeavingOpen ==
    /\ pc = "loop"
    /\ i = len_df
    /\ pc' = "done"
    /\ UNCHANGED outside_engine
    /\ UNCHANGED <<inputs, args, calls, first, df, err, i, locals>>
\* After the loop: a position still open is closed at the last close, and the
\* last equity sample is overwritten with the cash.
Finish ==
    /\ pc = "loop"
    /\ i = len_df
    /\ pc' = "done"
    /\ UNCHANGED outside_engine
    /\ IF in_position
       THEN LET last == df[len_df]
            IN  /\ cash' = ExitCash(units, last.close, params)
                /\ fees_paid' = RAdd(fees_paid, ExitFee(units, last.close, params))
                /\ trades' = Append(trades,
                                    TradeRecord(entry_ts, last.ts, entry_price_raw,
                                                entry_price_cost, last.close, units,
                                                params.slippage_per_side,
                                                FinalReason, sl, tp))
                /\ states' = CloseLastSample(states,
                                             ExitCash(units, last.close, params))
       ELSE UNCHANGED <<cash, fees_paid, trades, states>>
    /\ UNCHANGED <<inputs, args, calls, first, df, err, i, units, in_position,
                   cooldown, entry_price_raw, entry_price_cost, entry_ts, sl, tp, fills>>

\* The caller keeps the result and calls the function again with the same
\* arguments.
CallAgain ==
    /\ pc = "done"
    /\ calls = 1
    /\ UNCHANGED outside_engine
    /\ calls' = 2
    /\ first' = [states |-> states, trades |-> trades, none |-> FALSE]
    /\ pc' = "call"
    /\ UNCHANGED <<inputs, args, df, err, i, locals>>

Next == Call \/ LoopBar \/ Finish

Spec == Init /\ [][Next]_vars

\* Two calls in a row on the same arguments, on the shorter series.
InitTwice == Init /\ len_df <= AtrWindow + MaxTailTwice
NextTwice == Call \/ LoopBar \/ Finish \/ CallAgain
SpecTwice == InitTwice /\ [][NextTwice]_vars

\* run_backtest on the five-bar series.
InitFiveBars == InitOver(RisingWarmUps, {1}) /\ engine = "quick"
SpecFiveBars == InitFiveBars /\ [][Next]_vars

\* Both engines on series of 15 bars whose last bar opens at 8 or at 9.
InitOpen == InitOver(OpenWarmUps, {1})
SpecOpen == InitOpen /\ [][Next]_vars

\* Both engines on series of 13 bars, and of 13 bars and free bars after them.
InitShort == InitOver(ShortWarmUps, 0..MaxTailTwice)
SpecShort == InitShort /\ [][Next]_vars

\* ------------------------------------------------------------------------
\* The decision layer: evaluate_run and final_decision
\* ------------------------------------------------------------------------
\* The engine while another part of the program is exercised.
EngineIdle ==
    /\ engine = "none"
    /\ params = NoParams
    /\ warm = [len |-> 0, candle |-> RangedCandle, entry |-> FALSE, step |-> 0]
    /\ len_df = 0
    /\ columns = {}
    /\ len_entry = 0
    /\ len_exit = 0
    /\ nan_entry = FALSE
    /\ nan_exit = FALSE
    /\ ohlcv_df = << >>
    /\ entry_signal = << >>
    /\ exit_signal = << >>
    /\ calls = 1
    /\ first = NoResult
    /\ df = << >>
    /\ pc = "idle"
    /\ err = ""
    /\ i = 0
    /\ cash = NaN
    /\ units = NaN
    /\ in_position = FALSE
    /\ cooldown = 0
    /\ entry_price_raw = NaN
    /\ entry_price_cost = NaN
    /\ entry_ts = NoTs
    /\ sl = NaN
    /\ tp = NaN
    /\ trades = << >>
    /\ states = << >>
    /\ fees_paid = Zero
    /\ fills = 0

\* A metric that is None or missing in the bundle.
None == <<0, -1>>

\* The thresholds are read from the config module.  Two settings are explored:
\* one where the RED and the GREEN conditions exclude each other, and one
\* where a bundle can meet both (RET_GOOD < RET_MIN, DD_MAX < DD_WARN).
Configs ==
    {[RET_MIN |-> Q(1), RET_GOOD |-> Q(2), DD_MAX |-> Q(2), DD_WARN |-> Q(1),
      MIN_TRADES |-> 1, TPW_TARGET |-> Q(1), TPW_TOL |-> Q(1)],
     [RET_MIN |-> Q(3), RET_GOOD |-> Q(2), DD_MAX |-> Q(2), DD_WARN |-> Q(3),
      MIN_TRADES |-> 1, TPW_TARGET |-> Q(1), TPW_TOL |-> Q(1)]}

\* The metrics bundles of the bounded family.  A bundle without trades has no
\* trade frequency and no expectancy.
Activity ==
    {[trades |-> Q(0), tpw |-> Q(0), exp |-> Q(0)],
     [trades |-> Q(1), tpw |-> Q(1), exp |-> Q(0)],
     [trades |-> Q(1), tpw |-> Q(3), exp |-> Q(2)]}
Bundles ==
    {[ann |-> a, dd |-> d, trades |-> t.trades, tpw |-> t.tpw, exp |-> t.exp] :
        a \in {None} \cup {Q(n) : n \in 0..MaxAnn},
        d \in {Q(1), Q(3)},
        t \in Activity}

\* _num(metrics, key): the value as a float, the default 0.0 for None.
_num(metrics, key) == IF metrics[key] = None THEN Zero ELSE metrics[key]

\* int(x): truncation towards zero.
IntOf(x) == IF x[1] >= 0 THEN x[1] \div x[2] ELSE -((-x[1]) \div x[2])

\* max(x, 1e-9) for a rational whose denominator is below 10^9.
Tiny == Frac(1, 1000000000)
MaxTiny(x) == IF x[1] >= 1 THEN x ELSE Tiny

_decision_score(cfg, metrics) ==
    LET ann == _num(metrics, "ann")
        dd == _num(metrics, "dd")
        tpw == _num(metrics, "tpw")
        exp == _num(metrics, "exp")
        ann_s == RDiv(ann, MaxTiny(cfg.RET_GOOD))
        dd_s == RDiv(dd, MaxTiny(cfg.DD_MAX))
        tpw_pen == RDiv(RAbs(RSub(tpw, cfg.TPW_TARGET)), MaxTiny(cfg.TPW_TARGET))
    IN  RAdd(RSub(RSub(ann_s, RMul(Frac(4, 5), dd_s)),
                  RMul(Frac(1, 10), tpw_pen)),
             RMul(Frac(1, 5), exp))

\* The status chosen from the two conditions.
\* Variant that tests the GREEN condition first.
StatusOfGreenFirst(is_r, is_g) ==
    IF is_g THEN "GREEN" ELSE IF is_r THEN "RED" ELSE "YELLOW"
StatusOf(is_r, is_g) ==
    IF is_r THEN "RED" ELSE IF is_g THEN "GREEN" ELSE "YELLOW"

\* The subsequence of the reasons whose condition holds.
RECURSIVE Reasons(_)
Reasons(pairs) ==
    IF pairs = << >> THEN << >>
    ELSE IF pairs[1][1] THEN <<pairs[1][2]>> \o Reasons(Tail(pairs))
    ELSE Reasons(Tail(pairs))

\* Whether the trade frequency is off target by more than the tolerance.
OffTarget(cfg, metrics) ==
    RGt(RAbs(RSub(_num(metrics, "tpw"), cfg.TPW_TARGET)), cfg.TPW_TOL)

is_red(cfg, metrics) ==
    \/ RLt(_num(metrics, "ann"), cfg.RET_MIN)
    \/ RGt(_num(metrics, "dd"), cfg.DD_MAX)
    \/ IntOf(_num(metrics, "trades")) < cfg.MIN_TRADES

\* Variant that also wants the trade frequency on target.
is_green_on_target(cfg, metrics) ==
    /\ RGe(_num(metrics, "ann"), cfg.RET_GOOD)
    /\ RLe(_num(metrics, "dd"), cfg.DD_WARN)
    /\ IntOf(_num(metrics, "trades")) >= cfg.MIN_TRADES
    /\ ~OffTarget(cfg, metrics)
is_green(cfg, metrics) ==
    /\ RGe(_num(metrics, "ann"), cfg.RET_GOOD)
    /\ RLe(_num(metrics, "dd"), cfg.DD_WARN)
    /\ IntOf(_num(metrics, "trades")) >= cfg.MIN_TRADES

evaluate_run(cfg, metrics) ==
    LET ann == _num(metrics, "ann")
        dd == _num(metrics, "dd")
        n_trades == IntOf(_num(metrics, "trades"))
        off_target == OffTarget(cfg, metrics)
        status == StatusOf(is_red(cfg, metrics), is_green(cfg, metrics))
        yellow == Reasons(<< <<RLt(ann, cfg.RET_GOOD), "return below target">>,
                             <<RGt(dd, cfg.DD_WARN), "drawdown above comfort zone">>,
                             <<n_trades < cfg.MIN_TRADES, "trade count below minimum">>,
                             <<off_target, "trades/week far from target">> >>)
    IN  [status |-> status,
         color |-> status,
         reasons |->
            CASE status = "RED" ->
                   Reasons(<< <<RLt(ann, cfg.RET_MIN), "return below minimum">>,
                              <<RGt(dd, cfg.DD_MAX), "drawdown exceeds risk limit">>,
                              <<n_trades < cfg.MIN_TRADES, "low confidence">> >>)
              [] status = "GREEN" ->
                   Reasons(<< <<TRUE, "return and drawdown on target">>,
                              <<off_target, "trade frequency deviates">> >>)
              [] OTHER ->
                   IF yellow = << >> THEN <<"mixed return/risk profile">> ELSE yellow,
         recommendation |-> CASE status = "RED" -> "NO"
                              [] status = "GREEN" -> "INVEST"
                              [] OTHER -> "CAUTION",
         score |-> _decision_score(cfg, metrics)]

\* The scenarios handed to final_decision: the keys A, B, C in this order.
ScenarioKeys == <<"A", "B", "C">>

\* statuses.get(k): the status of the scenario with key k, "None" if absent.
StatusGet(sd, k) ==
    IF \E j \in 1..Len(sd) : sd[j].key = k
    THEN sd[CHOOSE j \in 1..Len(sd) : sd[j].key = k].decision.status
    ELSE "None"

\* sorted(seq, key=..., reverse=True)[0]: the sort is stable, so among the
\* elements no other element beats, the one that comes first is returned;
\* beats(x, y) tells that the key of x is greater than the key of y.
FirstBest(seq, beats(_, _)) ==
    seq[CHOOSE j \in 1..Len(seq) :
            /\ \A k \in 1..(j - 1) : beats(seq[j], seq[k])
            /\ \A k \in (j + 1)..Len(seq) : ~beats(seq[k], seq[j])]

\* The sort keys of final_decision.
\* Variant that prefers the lower score.
ByScoreLowest(x, y) == RLt(x.decision.score, y.decision.score)
ByScore(x, y) == RGt(x.decision.score, y.decision.score)
ByReturnThenDrawdown(x, y) ==
    \/ RGt(_num(x.metrics, "ann"), _num(y.metrics, "ann"))
    \/ /\ _num(x.metrics, "ann") = _num(y.metrics, "ann")
       /\ RLt(_num(x.metrics, "dd"), _num(y.metrics, "dd"))

IsYellow(x) == x.decision.status = "YELLOW"

\* Variant that looks for a GREEN scenario in the order A, B, C.
RecommendedInKeyOrder(sd) ==
    IF StatusGet(sd, "A") = "GREEN" THEN "A"
    ELSE IF StatusGet(sd, "B") = "GREEN" THEN "B"
    ELSE IF StatusGet(sd, "C") = "GREEN" THEN "C"
    ELSE IF SelectSeq(sd, IsYellow) # << >>
         THEN FirstBest(SelectSeq(sd, IsYellow), ByScore).key
         ELSE FirstBest(sd, ByReturnThenDrawdown).key
Recommended(sd) ==
    IF StatusGet(sd, "B") = "GREEN" THEN "B"
    ELSE IF StatusGet(sd, "A") = "GREEN" THEN "A"
    ELSE IF StatusGet(sd, "C") = "GREEN" THEN "C"
    ELSE IF SelectSeq(sd, IsYellow) # << >>
         THEN FirstBest(SelectSeq(sd, IsYellow), ByScore).key
         ELSE FirstBest(sd, ByReturnThenDrawdown).key

\* Variant that answers NO as soon as one scenario is RED.
final_decision_any_red(sd) ==
    LET any_red == \E j \in 1..Len(sd) : sd[j].decision.status = "RED"
        any_green == \E j \in 1..Len(sd) : sd[j].decision.status = "GREEN"
        recommended == Recommended(sd)
    IN  IF any_red THEN [label |-> "NO", recommended |-> recommended]
        ELSE IF any_green /\ StatusGet(sd, recommended) # "RED"
             THEN [label |-> "INVEST", recommended |-> recommended]
             ELSE [label |-> "CAUTION", recommended |-> recommended]
final_decision(sd) ==
    LET all_red == \A j \in 1..Len(sd) : sd[j].decision.status = "RED"
        any_green == \E j \in 1..Len(sd) : sd[j].decision.status = "GREEN"
        recommended == Recommended(sd)
    IN  IF all_red THEN [label |-> "NO", recommended |-> recommended]
        ELSE IF any_green /\ StatusGet(sd, recommended) # "RED"
             THEN [label |-> "INVEST", recommended |-> recommended]
             ELSE [label |-> "CAUTION", recommended |-> recommended]

\* One scenario is evaluated and stored under the next key.
EvaluateRun ==
    /\ config # NoConfig
    /\ final = NoFinal
    /\ Len(scenarios_dict) < Len(ScenarioKeys)
    /\ \E metrics \in Bundles :
           scenarios_dict' =
               Append(scenarios_dict,
                      [key |-> ScenarioKeys[Len(scenarios_dict) + 1],
                       metrics |-> metrics,
                       decision |-> evaluate_run(config, metrics)])
    /\ UNCHANGED <<config, final>>
    /\ UNCHANGED outside_decision

\* The three scenarios are handed to final_decision.
FinalDecision ==
    /\ final = NoFinal
    /\ Len(scenarios_dict) = Len(ScenarioKeys)
    /\ final' = final_decision(scenarios_dict)
    /\ UNCHANGED <<config, scenarios_dict>>
    /\ UNCHANGED outside_decision

InitDecision ==
    /\ EngineIdle
    /\ ScenariosIdle
    /\ LabIdle
    /\ UnitsIdle
    /\ config \in Configs
    /\ scenarios_dict = << >>
    /\ final = NoFinal
NextDecision == EvaluateRun \/ FinalDecision
SpecDecision == InitDecision /\ [][NextDecision]_vars

\* ------------------------------------------------------------------------
\* core/market_decision_lab/scenarios.py: run_scenarios
\* ------------------------------------------------------------------------
\* The grid of the sweep, in the order of product(timeframes, windows, modes).
Timeframes == <<"1h", "4h", "1d">>
EmaWindows == <<20, 50>>
SignalModes == <<"strict", "relaxed">>
Grid ==
    [n \in 1..(Len(Timeframes) * Len(EmaWindows) * Len(SignalModes)) |->
        [timeframe |->
             Timeframes[((n - 1) \div (Len(EmaWindows) * Len(SignalModes))) + 1],
         ema_window |->
             EmaWindows[(((n - 1) \div Len(SignalModes)) % Len(EmaWindows)) + 1],
         signal_mode |-> SignalModes[((n - 1) % Len(SignalModes)) + 1]]]

\* The metrics a backtest of the sweep can come back with: a drawdown at the
\* cap or beyond it, a low or a high return, trading on the target frequency
\* without expectancy or off it with expectancy.  One sweep sees at most two
\* of these bundles.
ScenarioBundles ==
    {[ann |-> Q(1), dd |-> Q(2), trades |-> Q(1), tpw |-> Q(1), exp |-> Q(0)],
     [ann |-> Q(3), dd |-> Q(2), trades |-> Q(1), tpw |-> Q(3), exp |-> Q(2)],
     [ann |-> Q(3), dd |-> Q(3), trades |-> Q(1), tpw |-> Q(1), exp |-> Q(0)],
     [ann |-> Q(1), dd |-> Q(3), trades |-> Q(1), tpw |-> Q(3), exp |-> Q(2)]}
Pools == {P \in SUBSET ScenarioBundles : Cardinality(P) \in {1, 2}}

sig(c) == <<c.params.timeframe, c.params.ema_window, c.params.signal_mode>>

_stability_score(cfg, metrics) ==
    RDiv(Q(1),
         RAdd(RAdd(Q(1), RDiv(metrics.dd, Q(100))),
              RAbs(RSub(metrics.tpw, cfg.TPW_TARGET))))

\* _select_best over positions of the candidates list; 0 stands for the
\* ValueError raised on an empty list.
_select_best(positions, beats(_, _)) ==
    IF positions = << >> THEN 0 ELSE FirstBest(positions, beats)

Positions(cs) == [j \in 1..Len(cs) |-> j]
Unused(cs, used) ==
    SelectSeq(Positions(cs), LAMBDA j : sig(cs[j]) \notin used)

\* The sort key of scenario A: (expectancy, -drawdown, -|tpw - TPW_TARGET|).
KeyA(cfg, m, n) ==
    \/ RGt(m.exp, n.exp)
    \/ /\ m.exp = n.exp
       /\ \/ RLt(m.dd, n.dd)
          \/ /\ m.dd = n.dd
             /\ RLt(RAbs(RSub(m.tpw, cfg.TPW_TARGET)),
                    RAbs(RSub(n.tpw, cfg.TPW_TARGET)))

scenario_a(cfg, cs, used) ==
    LET beats(x, y) == KeyA(cfg, cs[x].metrics, cs[y].metrics)
    IN  IF Unused(cs, used) # << >>
        THEN _select_best(Unused(cs, used), beats)
        ELSE _select_best(Positions(cs), beats)

\* Variant that keeps every combination within the cap, used or not.
b_eligible_used_too(cfg, cs, used) ==
    SelectSeq(Positions(cs), LAMBDA j : RLe(cs[j].metrics.dd, cfg.DD_MAX))
\* Variant that keeps every unused combination, whatever its drawdown.
b_eligible_any_risk(cfg, cs, used) ==
    SelectSeq(Positions(cs), LAMBDA j : sig(cs[j]) \notin used)
b_eligible(cfg, cs, used) ==
    SelectSeq(Positions(cs),
              LAMBDA j : RLe(cs[j].metrics.dd, cfg.DD_MAX) /\ sig(cs[j]) \notin used)

\* Scenario B: the position picked and whether it was picked by fallback.
scenario_b(cfg, cs, used) ==
    LET beats(x, y) == RGt(cs[x].metrics.ann, cs[y].metrics.ann)
    IN  IF b_eligible(cfg, cs, used) # << >>
        THEN [at |-> _select_best(b_eligible(cfg, cs, used), beats),
              fallback |-> FALSE]
        ELSE IF Unused(cs, used) # << >>
        THEN [at |-> _select_best(Unused(cs, used), beats), fallback |-> TRUE]
        ELSE [at |-> _select_best(Positions(cs), beats), fallback |-> TRUE]

\* scenario_b["risk_exceeded"] after the pick.
\* Variant that marks scenario B whatever the way it was picked.
risk_exceeded_always(fallback, flag) == TRUE
risk_exceeded_of_b(fallback, flag) == IF fallback THEN TRUE ELSE flag

scenario_c(cfg, cs, used) ==
    LET beats(x, y) == RGt(_stability_score(cfg, cs[x].metrics),
                           _stability_score(cfg, cs[y].metrics))
    IN  IF Unused(cs, used) # << >>
        THEN _select_best(Unused(cs, used), beats)
        ELSE _select_best(Positions(cs), beats)

\* One pass of the sweep loop: the next combination of the grid is backtested
\* and appended to the candidates.
RunCombination ==
    /\ picked = NoPicked
    /\ Len(candidates) < Len(Grid)
    /\ \E metrics \in pool :
           candidates' =
               Append(candidates,
                      [params |-> Grid[Len(candidates) + 1],
                       metrics |-> metrics,
                       decision |-> evaluate_run(config, metrics),
                       risk_exceeded |-> RGt(metrics.dd, config.DD_MAX)])
    /\ UNCHANGED <<config, pool, picked>>
    /\ UNCHANGED outside_scenarios

\* After the loop: A, B and C are selected in turn.  The scenarios are the
\* dicts of the candidates list themselves, so marking B marks its candidate.
SelectScenarios ==
    /\ picked = NoPicked
    /\ Len(candidates) = Len(Grid)
    /\ \E a \in {scenario_a(config, candidates, {})} :
       \E b \in {scenario_b(config, candidates, {sig(candidates[a])})} :
       \E c \in {scenario_c(config, candidates,
                            {sig(candidates[a]), sig(candidates[b.at])})} :
           /\ candidates' =
                  [candidates EXCEPT ![b.at].risk_exceeded =
                       risk_exceeded_of_b(b.fallback, @)]
           /\ picked' = [A |-> a, B |-> b.at, C |-> c]
    /\ UNCHANGED <<config, pool>>
    /\ UNCHANGED outside_scenarios

InitScenarios ==
    /\ EngineIdle
    /\ LabIdle
    /\ UnitsIdle
    /\ config \in {cfg \in Configs : RLe(cfg.RET_MIN, cfg.RET_GOOD)}
    /\ scenarios_dict = << >>
    /\ final = NoFinal
    /\ pool \in Pools
    /\ candidates = << >>
    /\ picked = NoPicked
NextScenarios == RunCombination \/ SelectScenarios
SpecScenarios == InitScenarios /\ [][NextScenarios]_vars

\* ------------------------------------------------------------------------
\* src/mdl/strategies/__init__.py: STRATEGIES, generate_candidates
\* src/mdl/lab/strategy_lab.py: run_strategy_lab
\* ------------------------------------------------------------------------
\* The registry, in insertion order; a param_grid is the sequence of its keys
\* with their value lists.
STRATEGIES ==
    <<[id |-> "ema_trend",
       param_grid |-> <<[key |-> "ema_window", values |-> <<20, 50, 100>>]>>],
      [id |-> "ema_crossover",
       param_grid |-> <<[key |-> "fast_ema", values |-> <<10, 20>>],
                        [key |-> "slow_ema", values |-> <<50, 100>>]>>],
      [id |-> "rsi_mean_reversion",
       param_grid |-> <<[key |-> "rsi_window", values |-> <<14>>],
                        [key |-> "entry_rsi", values |-> <<25, 30>>],
                        [key |-> "exit_rsi", values |-> <<55, 60>>]>>],
      [id |-> "donchian_breakout",
       param_grid |-> <<[key |-> "breakout_window", values |-> <<20, 55>>],
                        [key |-> "exit_window", values |-> <<10, 20>>]>>]>>

\* product(*values) zipped with the keys: the combinations in Cartesian
\* order, the last key varying fastest; a combination is its <<key, value>>
\* pairs.
RECURSIVE Product(_)
Product(grid) ==
    IF grid = << >> THEN << << >> >>
    ELSE LET rest == Product(Tail(grid))
             vals == Head(grid).values
         IN  [n \in 1..(Len(vals) * Len(rest)) |->
                 << <<Head(grid).key, vals[((n - 1) \div Len(rest)) + 1]>> >>
                     \o rest[((n - 1) % Len(rest)) + 1]]

RECURSIVE CandidatesOf(_)
CandidatesOf(specs) ==
    IF specs = << >> THEN << >>
    ELSE LET combos == Product(Head(specs).param_grid)
         IN  [n \in 1..Len(combos) |->
                 [strategy_id |-> Head(specs).id, params |-> combos[n]]]
                 \o CandidatesOf(Tail(specs))

\* candidates[:max_runs]: a negative bound counts from the end of the list.
Slice(seq, n) ==
    IF n >= 0
    THEN SubSeq(seq, 1, IF n < Len(seq) THEN n ELSE Len(seq))
    ELSE SubSeq(seq, 1, IF Len(seq) + n > 0 THEN Len(seq) + n ELSE 0)
generate_candidates(max_runs) == Slice(CandidatesOf(STRATEGIES), max_runs)

\* OBJECTIVES: the sort key and whether it is ascending.
ObjectiveNames == <<"Sharpe", "Return", "Min Drawdown", "Win Rate">>
OBJECTIVES(objective) ==
    CASE objective = "Sharpe" -> [sort_key |-> "sharpe", ascending |-> FALSE]
      [] objective = "Return" -> [sort_key |-> "total_return_pct", ascending |-> FALSE]
      [] objective = "Min Drawdown" -> [sort_key |-> "max_drawdown_pct", ascending |-> TRUE]
      [] objective = "Win Rate" -> [sort_key |-> "win_rate", ascending |-> FALSE]

\* What _compute_strategy_metrics can come back with on a series of three
\* candles or more: no trade at all, or trades with a return, a drawdown, a
\* Sharpe ratio and a win rate; two of the bundles agree on every metric but
\* the return.
LabBundles ==
    {[total_return_pct |-> Q(0), max_drawdown_pct |-> Q(0), sharpe |-> Q(0),
      win_rate |-> Q(0), n_trades |-> 0],
     [total_return_pct |-> Q(1), max_drawdown_pct |-> Q(1), sharpe |-> Q(1),
      win_rate |-> Q(50), n_trades |-> 2],
     [total_return_pct |-> Q(2), max_drawdown_pct |-> Q(1), sharpe |-> Q(1),
      win_rate |-> Q(50), n_trades |-> 2],
     [total_return_pct |-> Q(-1), max_drawdown_pct |-> Q(2), sharpe |-> Q(-1),
      win_rate |-> Q(0), n_trades |-> 1]}

\* On a series of two candles no position is opened, the equity has one
\* return, equity_ret.std() is NaN and so is the Sharpe ratio.
TwoCandleBundle ==
    [total_return_pct |-> Q(0), max_drawdown_pct |-> Q(0), sharpe |-> NaN,
     win_rate |-> Q(0), n_trades |-> 0]

MetricsOn(candles) ==
    IF candles = "two" THEN {TwoCandleBundle} ELSE LabBundles

\* The checks at the head of run_strategy_lab: the message of the ValueError
\* raised, "" when none is.
LabError(l) ==
    IF l.candles = "empty" THEN "Input OHLCV data is empty"
    ELSE IF \A n \in 1..Len(ObjectiveNames) : ObjectiveNames[n] # l.objective
         THEN "Unsupported objective"
    ELSE IF l.max_runs < 1 THEN "max_runs must be >= 1"
    ELSE IF l.top_n < 1 THEN "top_n must be >= 1"
    ELSE ""

\* sort_values(by=[sort_key, "total_return_pct"], ascending=[ascending,
\* False]): each key is compared in its direction with NaN last, two NaN
\* tie; rows equal on both keys keep their order.
KeyBefore(x, y, ascending) ==
    IF isnan(x) THEN FALSE
    ELSE IF isnan(y) THEN TRUE
    ELSE IF ascending THEN RLt(x, y) ELSE RGt(x, y)
KeyTie(x, y) == (isnan(x) /\ isnan(y)) \/ (~isnan(x) /\ ~isnan(y) /\ x = y)

\* Variant that breaks ties by the lower total return.
TieBreakAscending(x, y) == KeyBefore(x, y, TRUE)
TieBreak(x, y) == KeyBefore(x, y, FALSE)

RowBefore(rs, j, k, o) ==
    \/ KeyBefore(rs[j][o.sort_key], rs[k][o.sort_key], o.ascending)
    \/ /\ KeyTie(rs[j][o.sort_key], rs[k][o.sort_key])
       /\ \/ TieBreak(rs[j].total_return_pct, rs[k].total_return_pct)
          \/ /\ KeyTie(rs[j].total_return_pct, rs[k].total_return_pct)
             /\ j < k

sort_values(rs, o) ==
    [n \in 1..Len(rs) |->
        rs[CHOOSE k \in 1..Len(rs) :
               Cardinality({j \in 1..Len(rs) : RowBefore(rs, j, k, o)}) = n - 1]]

\* ranked_df.head(top_n)
head(rs, n) == SubSeq(rs, 1, IF n < Len(rs) THEN n ELSE Len(rs))

\* Variant that returns the detail of every candidate.
top_details_unfiltered(ds, top_df) == ds
top_details(ds, top_df) ==
    LET top_ids == {top_df[n].candidate_id : n \in 1..Len(top_df)}
    IN  SelectSeq(ds, LAMBDA d : d.candidate_id \in top_ids)

\* The head of run_strategy_lab raises.
LabReject ==
    /\ lab # NoLab
    /\ top = NoTop
    /\ LabError(lab) # ""
    /\ top' = [error |-> LabError(lab)]
    /\ UNCHANGED <<lab, lab_seen, rows, details, lab_first>>
    /\ UNCHANGED outside_lab

\* One pass of the loop: candidate idx is backtested, its row and its detail
\* are stored under the id strategy_id__idx.  The backtest of a candidate on
\* the same candles gives the same metrics in every call.
EvaluateCandidate ==
    /\ lab # NoLab
    /\ top = NoTop
    /\ LabError(lab) = ""
    /\ Len(rows) < Len(generate_candidates(lab.max_runs))
    /\ \E idx \in {Len(rows)} :
       \E cand \in {generate_candidates(lab.max_runs)[idx + 1]} :
       \E metrics \in IF idx < Len(lab_seen) THEN {lab_seen[idx + 1]}
                      ELSE MetricsOn(lab.candles) :
       \E candidate_id \in {<<cand.strategy_id, idx>>} :
           /\ lab_seen' = IF idx < Len(lab_seen) THEN lab_seen
                          ELSE Append(lab_seen, metrics)
           /\ rows' = Append(rows,
                  [candidate_id |-> candidate_id,
                   strategy_id |-> cand.strategy_id,
                   params |-> cand.params,
                   total_return_pct |-> metrics.total_return_pct,
                   max_drawdown_pct |-> metrics.max_drawdown_pct,
                   sharpe |-> metrics.sharpe,
                   win_rate |-> metrics.win_rate,
                   n_trades |-> metrics.n_trades])
           /\ details' = Append(details,
                  [candidate_id |-> candidate_id,
                   strategy_id |-> cand.strategy_id,
                   params |-> cand.params,
                   metrics |-> metrics])
    /\ UNCHANGED <<lab, top, lab_first>>
    /\ UNCHANGED outside_lab

\* After the loop: the rows are ranked, the first top_n are returned with
\* their details.
RankTop ==
    /\ lab # NoLab
    /\ top = NoTop
    /\ LabError(lab) = ""
    /\ Len(rows) = Len(generate_candidates(lab.max_runs))
    /\ \E top_df \in {head(sort_values(rows, OBJECTIVES(lab.objective)), lab.top_n)} :
           top' = [top_df |-> top_df, top_details |-> top_details(details, top_df)]
    /\ UNCHANGED <<lab, lab_seen, rows, details, lab_first>>
    /\ UNCHANGED outside_lab

\* run_strategy_lab is called once more with the same arguments.
LabCallAgain ==
    /\ lab # NoLab
    /\ top # NoTop
    /\ lab_first = NoTop
    /\ lab_first' = top
    /\ top' = NoTop
    /\ rows' = << >>
    /\ details' = << >>
    /\ UNCHANGED <<lab, lab_seen>>
    /\ UNCHANGED outside_lab

LabArguments ==
    [candles : {"empty", "two", "many"},
     objective : {ObjectiveNames[n] : n \in 1..Len(ObjectiveNames)} \cup {"Sortino"},
     max_runs : (0..MaxRuns) \cup {Len(CandidatesOf(STRATEGIES)) + 1},
     top_n : 0..MaxTopN]

\* Sweeps beyond MaxRuns candidates are explored on the two-candle series.
InitLab ==
    /\ EngineIdle
    /\ DecisionIdle
    /\ ScenariosIdle
    /\ UnitsIdle
    /\ lab \in {l \in LabArguments : l.max_runs > MaxRuns => l.candles = "two"}
    /\ lab_seen = << >>
    /\ rows = << >>
    /\ details = << >>
    /\ top = NoTop
    /\ lab_first = NoTop
NextLab == LabReject \/ EvaluateCandidate \/ RankTop \/ LabCallAgain
SpecLab == InitLab /\ [][NextLab]_vars

\* ------------------------------------------------------------------------
\* generate_candidates of core/market_decision_lab/strategies.py and of
\* src/mdl/strategies/__init__.py, called on its own
\* ------------------------------------------------------------------------
\* The registry of the core module, in insertion order.
CORE_STRATEGIES ==
    <<[id |-> "ema_trend",
       param_grid |-> <<[key |-> "ema_window", values |-> <<20, 50, 100>>]>>],
      [id |-> "ema_crossover",
       param_grid |-> <<[key |-> "fast_ema", values |-> <<10, 20>>],
                        [key |-> "slow_ema", values |-> <<50, 100>>]>>],
      [id |-> "rsi_mean_reversion",
       param_grid |-> <<[key |-> "rsi_window", values |-> <<14>>],
                        [key |-> "entry_rsi", values |-> <<25, 30>>],
                        [key |-> "exit_rsi", values |-> <<50, 55>>]>>],
      [id |-> "donchian_breakout",
       param_grid |-> <<[key |-> "breakout_window", values |-> <<20, 50>>],
                        [key |-> "exit_window", values |-> <<10, 20>>]>>]>>

\* The loop of the core generate_candidates: the candidates are appended one
\* by one and the list is returned as soon as it holds max_runs of them.
RECURSIVE AppendUntil(_, _, _)
AppendUntil(todo, done, max_runs) ==
    IF todo = << >> THEN done
    ELSE IF Len(done) + 1 >= max_runs THEN Append(done, Head(todo))
    ELSE AppendUntil(Tail(todo), Append(done, Head(todo)), max_runs)

core_generate_candidates(max_runs) ==
    IF max_runs < 1 THEN << >>
    ELSE AppendUntil(CandidatesOf(CORE_STRATEGIES), << >>, max_runs)

NoCall == [called |-> FALSE, max_runs |-> 0, out |-> << >>]

\* generate_candidates(max_runs) of the module returns.
GenerateCandidates ==
    /\ gen # NoUnit
    /\ ~gen.called
    /\ gen' = [gen EXCEPT !.called = TRUE,
                          !.out = IF gen.module = "core"
                                  THEN core_generate_candidates(gen.max_runs)
                                  ELSE generate_candidates(gen.max_runs)]
    /\ UnitsUnchangedBut("gen")
    /\ UNCHANGED outside_units

\* The function is called again, with the same bound or with the next one.
GenerateAgain ==
    /\ gen # NoUnit
    /\ gen.called
    /\ gen.prev = NoCall
    /\ \E more \in {0, 1} :
           /\ gen.max_runs + more <= Len(CandidatesOf(STRATEGIES)) + 1
           /\ gen' = [gen EXCEPT !.prev = [called |-> TRUE,
                                           max_runs |-> gen.max_runs,
                                           out |-> gen.out],
                                 !.max_runs = gen.max_runs + more,
                                 !.called = FALSE,
                                 !.out = << >>]
    /\ UnitsUnchangedBut("gen")
    /\ UNCHANGED outside_units

InitGenerate ==
    /\ EngineIdle
    /\ DecisionIdle
    /\ ScenariosIdle
    /\ LabIdle
    /\ UnitsIdleBut("gen")
    /\ gen \in [module : {"core", "mdl"},
               max_runs : (-MaxNegRuns)..(Len(CandidatesOf(STRATEGIES)) + 1),
               called : {FALSE},
               out : {<< >>},
               prev : {NoCall}]
NextGenerate == GenerateCandidates \/ GenerateAgain
SpecGenerate == InitGenerate /\ [][NextGenerate]_vars

\* ------------------------------------------------------------------------
\* The signal builders: src/mdl/strategies/ema.py, rsi.py, donchian.py
\* (core/market_decision_lab/strategies.py holds the same four functions)
\* ------------------------------------------------------------------------
\* Series are 1-based here: position k holds the bar of index k - 1.
\* Comparisons of pandas Series: False wherever an operand is NaN.
Gt(x, y) == ~isnan(x) /\ ~isnan(y) /\ RGt(x, y)
Lt(x, y) == ~isnan(x) /\ ~isnan(y) /\ RLt(x, y)
Ge(x, y) == ~isnan(x) /\ ~isnan(y) /\ RGe(x, y)
Le(x, y) == ~isnan(x) /\ ~isnan(y) /\ RLe(x, y)

\* series.shift(1)
shift(xs) == [k \in 1..Len(xs) |-> IF k = 1 THEN NaN ELSE xs[k - 1]]

\* series.ewm(alpha=alpha, adjust=False, min_periods=min_periods).mean():
\* the average starts at the first value that is not NaN and is reported
\* once min_periods such values have been seen.
RECURSIVE EwmAt(_, _, _)
EwmAt(xs, alpha, k) ==
    IF k = 0 THEN NaN
    ELSE LET before == EwmAt(xs, alpha, k - 1)
         IN  IF isnan(xs[k]) THEN before
             ELSE IF isnan(before) THEN xs[k]
             ELSE RAdd(RMul(RSub(Q(1), alpha), before), RMul(alpha, xs[k]))
Seen(xs, k) == Cardinality({j \in 1..k : ~isnan(xs[j])})
ewm_mean(xs, alpha, min_periods) ==
    [k \in 1..Len(xs) |->
        IF Seen(xs, k) < min_periods THEN NaN ELSE EwmAt(xs, alpha, k)]
\* ewm(span=span, adjust=False): alpha = 2 / (span + 1), no minimum.
ewm_span(xs, span) == ewm_mean(xs, Frac(2, span + 1), 0)

\* series.rolling(window=n, min_periods=n).max() and .min()
RECURSIVE MaxOver(_, _, _)
MaxOver(xs, a, b) ==
    IF a = b THEN xs[a] ELSE RMax(xs[a], MaxOver(xs, a + 1, b))
RECURSIVE MinOver(_, _, _)
MinOver(xs, a, b) ==
    IF a = b THEN xs[a]
    ELSE LET rest == MinOver(xs, a + 1, b) IN IF RLt(rest, xs[a]) THEN rest ELSE xs[a]
\* Variant with min_periods = 1: the window is whatever history there is.
rolling_max_partial(xs, n) ==
    [k \in 1..Len(xs) |-> MaxOver(xs, IF k < n THEN 1 ELSE k - n + 1, k)]
rolling_max(xs, n) ==
    [k \in 1..Len(xs) |-> IF k < n THEN NaN ELSE MaxOver(xs, k - n + 1, k)]
rolling_min(xs, n) ==
    [k \in 1..Len(xs) |-> IF k < n THEN NaN ELSE MinOver(xs, k - n + 1, k)]

Column(d, name) == [k \in 1..Len(d) |-> d[k][name]]

ema_trend(d, strategy_params) ==
    LET close == Column(d, "close")
        ema == ewm_span(close, strategy_params.ema_window)
    IN  [entry |-> [k \in 1..Len(d) |-> Gt(close[k], ema[k])],
         exit |-> [k \in 1..Len(d) |-> Lt(close[k], ema[k])]]

ema_crossover(d, strategy_params) ==
    LET close == Column(d, "close")
        fast == ewm_span(close, strategy_params.fast_ema)
        slow == ewm_span(close, strategy_params.slow_ema)
        spread == [k \in 1..Len(d) |-> RSub(fast[k], slow[k])]
        before == shift(spread)
    IN  [entry |-> [k \in 1..Len(d) |-> Gt(spread[k], Zero) /\ Le(before[k], Zero)],
         exit |-> [k \in 1..Len(d) |-> Lt(spread[k], Zero) /\ Ge(before[k], Zero)]]

\* _rsi(series, window): Wilder smoothing of gains and losses; where the RSI
\* is undefined (no history yet, or no loss in the average) it is 50.
_rsi(close, window) ==
    LET delta == [k \in 1..Len(close) |->
                     IF k = 1 THEN NaN ELSE RSub(close[k], close[k - 1])]
        gains == [k \in 1..Len(close) |->
                     IF isnan(delta[k]) THEN NaN ELSE RMax(delta[k], Zero)]
        losses == [k \in 1..Len(close) |->
                      IF isnan(delta[k]) THEN NaN ELSE RMax(RNeg(delta[k]), Zero)]
        avg_gain == ewm_mean(gains, Frac(1, window), window)
        avg_loss == ewm_mean(losses, Frac(1, window), window)
    IN  [k \in 1..Len(close) |->
            IF isnan(avg_gain[k]) \/ isnan(avg_loss[k]) \/ avg_loss[k] = Zero
            THEN Q(50)
            ELSE RSub(Q(100),
                      RDiv(Q(100), RAdd(Q(1), RDiv(avg_gain[k], avg_loss[k]))))]

rsi_mean_reversion(d, strategy_params) ==
    LET rsi == _rsi(Column(d, "close"), strategy_params.rsi_window)
    IN  [entry |-> [k \in 1..Len(d) |-> Lt(rsi[k], Q(strategy_params.entry_rsi))],
         exit |-> [k \in 1..Len(d) |-> Gt(rsi[k], Q(strategy_params.exit_rsi))]]

donchian_breakout(d, strategy_params) ==
    LET close == Column(d, "close")
        rolling_high ==
            shift(rolling_max(Column(d, "high"), strategy_params.breakout_window))
        rolling_low ==
            shift(rolling_min(Column(d, "low"), strategy_params.exit_window))
    IN  [entry |-> [k \in 1..Len(d) |-> Gt(close[k], rolling_high[k])],
         exit |-> [k \in 1..Len(d) |-> Lt(close[k], rolling_low[k])]]

\* spec.build_signals(ohlcv_df, strategy_params)
build_signals(family, d, strategy_params) ==
    CASE family = "ema_trend" -> ema_trend(d, strategy_params)
      [] family = "ema_crossover" -> ema_crossover(d, strategy_params)
      [] family = "rsi_mean_reversion" -> rsi_mean_reversion(d, strategy_params)
      [] family = "donchian_breakout" -> donchian_breakout(d, strategy_params)

\* The candles of the series handed to the builders: a ranged bar, a bar
\* closing at its high above the range, a bar closing at its low below it.
SignalCandles == {Candle(2, 3, 1, 2), Candle(4, 4, 3, 4), Candle(1, 1, 0, 0)}

\* The parameters: the windows are small so that series of MaxBars bars have
\* bars with history and bars without; the RSI thresholds are those of the
\* two registries.
Windows == 1..MaxWindow
SignalCalls ==
    [family : {"ema_trend"}, params : [ema_window : Windows]]
    \cup [family : {"ema_crossover"},
          params : [fast_ema : Windows, slow_ema : Windows]]
    \cup [family : {"rsi_mean_reversion"},
          params : [rsi_window : Windows, entry_rsi : {25, 30}, exit_rsi : {50, 55, 60}]]
    \cup [family : {"donchian_breakout"},
          params : [breakout_window : Windows, exit_window : Windows]]

BuildSignals ==
    /\ sgn # NoUnit
    /\ ~sgn.called
    /\ \E out \in {build_signals(sgn.family, sgn.df, sgn.params)} :
           sgn' = [sgn EXCEPT !.called = TRUE, !.entry = out.entry, !.exit = out.exit]
    /\ UnitsUnchangedBut("sgn")
    /\ UNCHANGED outside_units

InitSignals ==
    /\ EngineIdle
    /\ DecisionIdle
    /\ ScenariosIdle
    /\ LabIdle
    /\ UnitsIdleBut("sgn")
    /\ \E call \in SignalCalls, n \in 0..MaxBars :
       \E d \in [1..n -> SignalCandles] :
           sgn = [family |-> call.family, params |-> call.params, df |-> d,
                  called |-> FALSE, entry |-> << >>, exit |-> << >>]
NextSignals == BuildSignals
SpecSignals == InitSignals /\ [][NextSignals]_vars

\* ------------------------------------------------------------------------
\* src/mdl/backtest/metrics.py: summarize_metrics
\* ------------------------------------------------------------------------
\* math.inf
Inf == <<1, 0>>

\* The rows of trades_df the metrics read: pnl and pnl_pct.  Two winners, a
\* break-even trade, two losers.
TradeRows ==
    {[pnl |-> Q(2), pnl_pct |-> Q(20)], [pnl |-> Q(1), pnl_pct |-> Q(10)],
     [pnl |-> Q(0), pnl_pct |-> Q(0)],
     [pnl |-> Q(-1), pnl_pct |-> Q(-10)], [pnl |-> Q(-3), pnl_pct |-> Q(-20)]}
TestDays == {0, 1, 3, 7, 14}

IsWin(t) == RGt(t.pnl, Zero)
IsLoss(t) == RLt(t.pnl, Zero)
PnlOf(ts) == [k \in 1..Len(ts) |-> ts[k].pnl]

\* The profit factor policy.
\* Variant that divides whenever there is a profit.
profit_factor_dividing(profits, losses) ==
    IF profits = Zero THEN Zero ELSE RDiv(profits, RAbs(losses))
profit_factor_of(profits, losses) ==
    IF losses = Zero /\ RGt(profits, Zero) THEN Inf
    ELSE IF losses = Zero THEN Zero
    ELSE RDiv(profits, RAbs(losses))

\* Line 25: the number of weeks the trade count is divided by.
\* Variant that floors the days, not the weeks.
weeks_days_floored(test_days) ==
    RDiv(Q(IF test_days < 1 THEN 1 ELSE test_days), Q(7))
weeks(test_days) == RMax(Q(1), Frac(test_days, 7))

\* summarize_metrics, for the metrics that come from the trade list and the
\* test period (the equity metrics are left to the engine's equity trace).
summarize_metrics(trades_df, test_days) ==
    LET trade_count == Len(trades_df)
        profits == IF trade_count > 0
                   THEN RSum(PnlOf(SelectSeq(trades_df, IsWin))) ELSE Zero
        losses == IF trade_count > 0
                  THEN RSum(PnlOf(SelectSeq(trades_df, IsLoss))) ELSE Zero
    IN  [number_of_trades |-> trade_count,
         trades_per_week |-> RDiv(Q(trade_count), weeks(test_days)),
         win_rate |->
             IF trade_count > 0
             THEN RMul(Frac(Len(SelectSeq(trades_df, IsWin)), trade_count), Q(100))
             ELSE Zero,
         expectancy |->
             IF trade_count > 0
             THEN RDiv(RSum([k \in 1..trade_count |-> trades_df[k].pnl_pct]),
                       Q(trade_count))
             ELSE Zero,
         profit_factor |-> profit_factor_of(profits, losses),
         test_days |-> test_days]

NoMetrics == [none |-> TRUE]

SummarizeMetrics ==
    /\ met # NoUnit
    /\ met.out = NoMetrics
    /\ met' = [met EXCEPT !.out = summarize_metrics(met.trades_df, met.test_days)]
    /\ UnitsUnchangedBut("met")
    /\ UNCHANGED outside_units

InitMetrics ==
    /\ EngineIdle
    /\ DecisionIdle
    /\ ScenariosIdle
    /\ LabIdle
    /\ UnitsIdleBut("met")
    /\ \E n \in 0..MaxTrades, days \in TestDays :
       \E ts \in [1..n -> TradeRows] :
           met = [trades_df |-> ts, test_days |-> days, out |-> NoMetrics]
NextMetrics == SummarizeMetrics
SpecMetrics == InitMetrics /\ [][NextMetrics]_vars

\* ------------------------------------------------------------------------
\* src/mdl/data/ohlcv.py: fetch_with_retries
\* ------------------------------------------------------------------------
\* What one invocation of fn can do: return a list, or raise.  The value and
\* the exception carry the number of the invocation that produced them.
RetryableKinds == {"RequestTimeout", "RateLimitExceeded"}
FnOutcomes == {"return", "ValueError"} \cup RetryableKinds
is_retryable_exception(exc) == exc.kind \in RetryableKinds

\* The delays the callers pass: the tests' 0, fetch_ohlcv's default 1, and 2.
BackoffValues == {0, 1, 2}

\* Line 132: what follows an exception of fn on the given attempt.
\* Variant that gives up one attempt early.
after_exception_one_short(exc, attempt, max_retries) ==
    IF ~is_retryable_exception(exc) \/ attempt + 1 >= max_retries
    THEN "raise" ELSE "sleep"
\* Variant that retries whatever the exception.
after_exception_any(exc, attempt, max_retries) ==
    IF attempt = max_retries THEN "raise" ELSE "sleep"
after_exception(exc, attempt, max_retries) ==
    IF ~is_retryable_exception(exc) \/ attempt = max_retries
    THEN "raise" ELSE "sleep"

RECURSIVE TwoTo(_)
TwoTo(n) == IF n <= 0 THEN 1 ELSE 2 * TwoTo(n - 1)
\* Line 134: the seconds slept after a retryable failure on the given attempt.
\* Variant that doubles the delay with every attempt.
delay_doubling(backoff_s, attempt) == backoff_s * TwoTo(attempt)
delay(backoff_s, attempt) == backoff_s * (attempt + 1)

NoValue == [kind |-> "nothing", id |-> 0]
PyNone == [kind |-> "None", id |-> 0]

\* One iteration of the loop: fn is invoked once.
FetchAttempt ==
    /\ fetch # NoUnit
    /\ fetch.status = "running"
    /\ fetch.attempt < fetch.max_retries + 1
    /\ \E kind \in FnOutcomes :
       LET got == [kind |-> kind, id |-> Len(fetch.outcomes) + 1]
           seen == [fetch EXCEPT !.outcomes = Append(@, got)]
       IN  fetch' =
             IF kind = "return"
             THEN [seen EXCEPT !.status = "returned", !.result = got]
             ELSE IF after_exception(got, fetch.attempt, fetch.max_retries) = "raise"
             THEN [seen EXCEPT !.status = "raised", !.raised = got]
             ELSE [seen EXCEPT
                     !.slept = Append(@, delay(fetch.backoff_s, fetch.attempt)),
                     !.attempt = @ + 1]
    /\ UnitsUnchangedBut("fetch")
    /\ UNCHANGED outside_units

\* The range is exhausted: the function falls off its end.
FetchFallThrough ==
    /\ fetch # NoUnit
    /\ fetch.status = "running"
    /\ ~(fetch.attempt < fetch.max_retries + 1)
    /\ fetch' = [fetch EXCEPT !.status = "returned", !.result = PyNone]
    /\ UnitsUnchangedBut("fetch")
    /\ UNCHANGED outside_units

InitFetch ==
    /\ EngineIdle
    /\ DecisionIdle
    /\ ScenariosIdle
    /\ LabIdle
    /\ UnitsIdleBut("fetch")
    /\ \E max_retries \in (-1)..MaxRetries, backoff_s \in BackoffValues :
           fetch = [max_retries |-> max_retries, backoff_s |-> backoff_s,
                    attempt |-> 0, outcomes |-> << >>, slept |-> << >>,
                    status |-> "running", result |-> NoValue, raised |-> NoValue]
NextFetch == FetchAttempt \/ FetchFallThrough
SpecFetch == InitFetch /\ [][NextFetch]_vars

\* ------------------------------------------------------------------------
\* app/streamlit_app.py: save_single_run; storage.py: save_run, save_trades
\* ------------------------------------------------------------------------
\* The runs one handler persists, each given by the number of rows of its
\* trades_df: one run for the quick check, the runs A, B, C for the compare
\* check.  A run's id is its position (the code draws a fresh uuid4 per run).
RunBatches ==
    UNION {[1..n -> 0..MaxTradeRows] : n \in {1, 3}}
TradeRowsOf(run_id, n) == {<<run_id, row>> : row \in 1..n}

\* After save_trades returns: the next run of the loop, or the handler is done.
AfterRun(st) ==
    IF st.k < Len(st.todo)
    THEN [st EXCEPT !.k = @ + 1, !.pc = "save_run"]
    ELSE [st EXCEPT !.pc = "returned"]

\* save_run: one connection, one INSERT, committed when the with-block ends.
SaveRun ==
    /\ store # NoUnit
    /\ store.pc = "save_run"
    /\ store' = [store EXCEPT !.runs = @ \cup {store.k}, !.pc = "save_trades"]
    /\ UnitsUnchangedBut("store")
    /\ UNCHANGED outside_units

\* save_run raises (sqlite3.Error): the with-block rolls back, nothing is
\* written, and the exception leaves save_single_run.
SaveRunFails ==
    /\ store # NoUnit
    /\ store.pc = "save_run"
    /\ store' = [store EXCEPT !.pc = "raised"]
    /\ UnitsUnchangedBut("store")
    /\ UNCHANGED outside_units

\* save_trades: returns at once for an empty frame; otherwise a second
\* connection, one executemany, committed when the with-block ends.
SaveTrades ==
    /\ store # NoUnit
    /\ store.pc = "save_trades"
    /\ store' =
         IF store.todo[store.k] = 0
         THEN AfterRun(store)
         ELSE AfterRun([store EXCEPT
                 !.trades = @ \cup TradeRowsOf(store.k, store.todo[store.k])])
    /\ UnitsUnchangedBut("store")
    /\ UNCHANGED outside_units

\* save_trades raises inside its own transaction: its rows are rolled back,
\* the run row committed by save_run stays.
SaveTradesFails ==
    /\ store # NoUnit
    /\ store.pc = "save_trades"
    /\ store.todo[store.k] > 0
    /\ store' = [store EXCEPT !.pc = "raised"]
    /\ UnitsUnchangedBut("store")
    /\ UNCHANGED outside_units

InitStore ==
    /\ EngineIdle
    /\ DecisionIdle
    /\ ScenariosIdle
    /\ LabIdle
    /\ UnitsIdleBut("store")
    /\ \E todo \in RunBatches :
           store = [todo |-> todo, k |-> 1, pc |-> "save_run",
                    runs |-> {}, trades |-> {}]
NextStore == SaveRun \/ SaveRunFails \/ SaveTrades \/ SaveTradesFails
SpecStore == InitStore /\ [][NextStore]_vars

\* ------------------------------------------------------------------------
\* app/ui_guards.py: can_run_strategy_lab, and the session state it reads
\* ------------------------------------------------------------------------
\* A key of the session dict is absent, holds None, or holds the result of
\* the numbered submission.
Absent == [kind |-> "absent", id |-> 0]
ResultOf(n) == [kind |-> "result", id |-> n]
\* dict.get(key)
Get(state, key) == IF state[key] = Absent THEN PyNone ELSE state[key]

GuardMessage == "Run Quick Check or A/B/C Compare first to provide data context for Strategy Lab."
\* Variant that asks whether the keys are there.
can_run_strategy_lab_key_present(state) ==
    LET has_quick == state.quick_result # Absent
        has_compare == state.compare_result # Absent
    IN  IF ~(has_quick \/ has_compare)
        THEN [ok |-> FALSE, msg |-> GuardMessage]
        ELSE [ok |-> TRUE, msg |-> "None"]
can_run_strategy_lab(state) ==
    LET has_quick == Get(state, "quick_result") # PyNone
        has_compare == Get(state, "compare_result") # PyNone
    IN  IF ~(has_quick \/ has_compare)
        THEN [ok |-> FALSE, msg |-> GuardMessage]
        ELSE [ok |-> TRUE, msg |-> "None"]

NoGuard == [called |-> FALSE, ok |-> FALSE, msg |-> "None",
            state |-> [quick_result |-> Absent, compare_result |-> Absent]]

\* run_app, lines 287-290: absent keys are set to None.
SessionDefaults ==
    /\ session # NoUnit
    /\ session.state.quick_result = Absent \/ session.state.compare_result = Absent
    /\ session' = [session EXCEPT
          !.state = [quick_result |-> Get(session.state, "quick_result"),
                     compare_result |-> Get(session.state, "compare_result")]]
    /\ UnitsUnchangedBut("session")
    /\ UNCHANGED outside_units

\* A submitted quick check (lines 379-436): the result is stored on success,
\* the key is left alone when run_quick_check raises.
SubmitQuick ==
    /\ session # NoUnit
    /\ session.submits < MaxSubmits
    /\ \E succeeds \in BOOLEAN :
         session' = [session EXCEPT
            !.submits = @ + 1,
            !.state.quick_result =
                IF succeeds THEN ResultOf(session.submits + 1) ELSE @]
    /\ UnitsUnchangedBut("session")
    /\ UNCHANGED outside_units

\* A submitted compare (lines 438-503).
SubmitCompare ==
    /\ session # NoUnit
    /\ session.submits < MaxSubmits
    /\ \E succeeds \in BOOLEAN :
         session' = [session EXCEPT
            !.submits = @ + 1,
            !.state.compare_result =
                IF succeeds THEN ResultOf(session.submits + 1) ELSE @]
    /\ UnitsUnchangedBut("session")
    /\ UNCHANGED outside_units

\* The guard is asked about the session state as it is.
CanRunStrategyLab ==
    /\ session # NoUnit
    /\ LET out == can_run_strategy_lab(session.state)
       IN  session' = [session EXCEPT
              !.guard = [called |-> TRUE, ok |-> out.ok, msg |-> out.msg,
                         state |-> session.state]]
    /\ UnitsUnchangedBut("session")
    /\ UNCHANGED outside_units

InitSession ==
    /\ EngineIdle
    /\ DecisionIdle
    /\ ScenariosIdle
    /\ LabIdle
    /\ UnitsIdleBut("session")
    /\ \E quick \in {Absent, PyNone}, compare \in {Absent, PyNone} :
           session = [state |-> [quick_result |-> quick, compare_result |-> compare],
                      submits |-> 0, guard |-> NoGuard]
NextSession == SessionDefaults \/ SubmitQuick \/ SubmitCompare \/ CanRunStrategyLab
SpecSession == InitSession /\ [][NextSession]_vars

\* ------------------------------------------------------------------------
\* The loops over sibling evaluations: run_scenarios (scenarios.py 42-70),
\* run_strategy_lab (strategy_lab.py 69-95), and their caller run_app
\* ------------------------------------------------------------------------
\* The number of evaluations of a sweep: the twelve combinations of the grid,
\* or the candidates of a Strategy-Lab run.
SweepSizes(caller) ==
    IF caller = "run_scenarios" THEN {Len(Grid)} ELSE 1..MaxRuns

\* One pass of the loop body: the evaluation returns and is appended.
SweepEvaluate ==
    /\ sweep # NoUnit
    /\ sweep.pc = "loop"
    /\ Len(sweep.evaluated) < sweep.size
    /\ (Len(sweep.evaluated) + 1) \notin sweep.failing
    /\ sweep' = [sweep EXCEPT !.evaluated = Append(@, Len(@) + 1)]
    /\ UnitsUnchangedBut("sweep")
    /\ UNCHANGED outside_units

\* One pass of the loop body in which the backtest raises: the loop has no
\* try, so the exception leaves the function and the list is lost with it.
SweepEvaluateRaises ==
    /\ sweep # NoUnit
    /\ sweep.pc = "loop"
    /\ Len(sweep.evaluated) < sweep.size
    /\ (Len(sweep.evaluated) + 1) \in sweep.failing
    /\ sweep' = [sweep EXCEPT !.pc = "raised"]
    /\ UnitsUnchangedBut("sweep")
    /\ UNCHANGED outside_units

\* The loop is over: the function returns what it evaluated.
SweepReturn ==
    /\ sweep # NoUnit
    /\ sweep.pc = "loop"
    /\ Len(sweep.evaluated) = sweep.size
    /\ sweep' = [sweep EXCEPT !.pc = "returned", !.returned = sweep.evaluated]
    /\ UnitsUnchangedBut("sweep")
    /\ UNCHANGED outside_units

\* run_app's except branch: one error is logged for the whole run and no
\* result is stored.
AppCatches ==
    /\ sweep # NoUnit
    /\ sweep.pc = "raised"
    /\ sweep' = [sweep EXCEPT !.pc = "failed",
                              !.errors = {Len(sweep.evaluated) + 1}]
    /\ UnitsUnchangedBut("sweep")
    /\ UNCHANGED outside_units

InitSweep ==
    /\ EngineIdle
    /\ DecisionIdle
    /\ ScenariosIdle
    /\ LabIdle
    /\ UnitsIdleBut("sweep")
    /\ \E caller \in {"run_scenarios", "run_strategy_lab"} :
       \E size \in SweepSizes(caller) :
       \E failing \in {F \in SUBSET (1..size) : Cardinality(F) <= 1} :
           sweep = [caller |-> caller, size |-> size, failing |-> failing,
                    evaluated |-> << >>, returned |-> << >>, errors |-> {},
                    pc |-> "loop"]
NextSweep == SweepEvaluate \/ SweepEvaluateRaises \/ SweepReturn \/ AppCatches
SpecSweep == InitSweep /\ [][NextSweep]_vars

\* ------------------------------------------------------------------------
\* log_store.sanitize_meta and the two app loggers that call it
\* ------------------------------------------------------------------------
\* A logged value is a node [key, kind, len, items]: key is the key under
\* which the node sits in its parent dict ("" for the root and for list
\* elements), kind is "dict", "list" or "str", len is the length of a string
\* and items the entries of a dict or the elements of a list.
SENSITIVE_KEYS ==
    {"api_key", "apikey", "key", "secret", "token", "authorization", "auth",
     "cookie", "cookies", "set-cookie", "ip", "x-forwarded-for"}

\* str(key).lower() on the keys of the bounded family.
Lower(key) == IF key = "Token" THEN "token" ELSE key

\* Keys of the bounded family: one sensitive (in upper case), one not.
MetaKeys == {"Token", "items"}

\* Lengths of the strings of the family: one short, one over 200 characters.
StrLens == {5, 201}

Str(n) == [key |-> "", kind |-> "str", len |-> n, items |-> << >>]
Dict(entries) == [key |-> "", kind |-> "dict", len |-> 0, items |-> entries]
List(elems) == [key |-> "", kind |-> "list", len |-> 0, items |-> elems]
Keyed(key, v) == [v EXCEPT !.key = key]

\* Values nested at most depth levels deep, each container holding at most
\* one entry.
RECURSIVE MetaValues(_)
MetaValues(depth) ==
    IF depth = 0 THEN {Str(n) : n \in StrLens}
    ELSE LET inner == MetaValues(depth - 1)
         IN  {Str(n) : n \in StrLens}
             \cup {Dict(<< >>), List(<< >>)}
             \cup {Dict(<<Keyed(key, v)>>) : key \in MetaKeys, v \in inner}
             \cup {List(<<v>>) : v \in inner}

\* The dicts passed as meta: empty, one entry, or a string entry followed by
\* an entry under the other key.
MetaDicts ==
    LET inner == MetaValues(MaxDepth - 1)
    IN  {Dict(<< >>)}
        \cup {Dict(<<Keyed(key, v)>>) : key \in MetaKeys, v \in inner}
        \cup {Dict(<<Keyed(pair[1], Str(5)), Keyed(pair[2], v)>>) :
                pair \in {q \in MetaKeys \X MetaKeys : q[1] # q[2]}, v \in inner}

\* _truncate_value: a string over 200 characters becomes its first 20
\* characters and "..."; every other value is returned as it is.
_truncate_value(value) ==
    IF value.kind = "str" /\ value.len > 200
    THEN [value EXCEPT !.len = 23]
    ELSE value

\* sanitize_meta: entries under a sensitive key are dropped; a dict value is
\* sanitised in turn; in a list value the dict elements are sanitised and the
\* other elements only truncated; any other value is truncated.
RECURSIVE sanitize_meta(_)
sanitize_meta(m) ==
    LET kept == SelectSeq(m.items, LAMBDA e : Lower(e.key) \notin SENSITIVE_KEYS)
        clean(e) ==
            IF e.kind = "dict" THEN sanitize_meta(e)
            ELSE IF e.kind = "list"
            THEN [e EXCEPT !.items =
                    [k \in 1..Len(e.items) |->
                        IF e.items[k].kind = "dict"
                        THEN sanitize_meta(e.items[k])
                        ELSE _truncate_value(e.items[k])]]
            ELSE _truncate_value(e)
    IN  [m EXCEPT !.items = [k \in 1..Len(kept) |-> clean(kept[k])]]

\* append_event: the sanitised meta goes to the meta_json column of events.
AppendEvent ==
    /\ meta # NoUnit
    /\ meta.pc = "call"
    /\ meta' = [meta EXCEPT !.out = sanitize_meta(meta.given),
                            !.file = "events", !.pc = "logged"]
    /\ UnitsUnchangedBut("meta")
    /\ UNCHANGED outside_units

\* append_error: the sanitised context goes to the context_json column of
\* errors.
AppendError ==
    /\ meta # NoUnit
    /\ meta.pc = "call"
    /\ meta' = [meta EXCEPT !.out = sanitize_meta(meta.given),
                            !.file = "errors", !.pc = "logged"]
    /\ UnitsUnchangedBut("meta")
    /\ UNCHANGED outside_units

InitMeta ==
    /\ EngineIdle
    /\ DecisionIdle
    /\ ScenariosIdle
    /\ LabIdle
    /\ UnitsIdleBut("meta")
    /\ \E given \in MetaDicts :
           meta = [given |-> given, out |-> Dict(<< >>), file |-> "", pc |-> "call"]
NextMeta == AppendEvent \/ AppendError
SpecMeta == InitMeta /\ [][NextMeta]_vars

\* ------------------------------------------------------------------------
\* Properties
\* ------------------------------------------------------------------------
\* Position k (1-based) of the trace is a bar processed while a position is
\* open on which both the active stop and the active target are breached.
BothBreached(k) ==
    /\ k \in 2..Len(states)
    /\ states[k - 1].position = 1
    /\ RLe(df[k].low, states[k - 1].sl)
    /\ RGe(df[k].high, states[k - 1].tp)

\* C1: on every bar processed while a position is open with low <= stop and
\* high >= target, the position is closed on that bar at the stop price with
\* reason stop_loss, and no trade closed on that bar carries take_profit or
\* signal_exit, whatever the exit signal is.
C1_TieBreakStopLoss ==
    \A k \in 2..Len(states) :
        BothBreached(k) =>
            /\ \E j \in 1..Len(trades) :
                   /\ trades[j].exit_ts = df[k].ts
                   /\ trades[j].reason = "stop_loss"
                   /\ trades[j].exit = Round8(states[k - 1].sl)
                   /\ trades[j].sl = states[k - 1].sl
            /\ \A j \in 1..Len(trades) :
                   trades[j].exit_ts = df[k].ts
                       => trades[j].reason \notin {"take_profit", "signal_exit"}

C1_Witness ==
    /\ pc = "done"
    /\ engine = "signals"
    /\ \E k \in 2..Len(states) :
           /\ BothBreached(k)
           /\ RLt(states[k - 1].sl, states[k - 1].tp)
           /\ exit_signal[k]
           /\ \E j \in 1..Len(trades) :
                  trades[j].exit_ts = df[k].ts /\ trades[j].reason = "stop_loss"

\* C2: a completed run on n >= 1 candles returns exactly n equity samples,
\* one per input candle in input order.
C2_EquityTraceLength ==
    pc = "done" =>
        /\ len_df >= 1
        /\ Len(states) = len_df
        /\ \A k \in 1..len_df : /\ states[k].ts = ohlcv_df[k].ts
                                /\ states[k].close = ohlcv_df[k].close

C2_Witness ==
    /\ pc = "done"
    /\ len_df > AtrWindow
    /\ Len(states) = len_df
    /\ params.cooldown_candles >= 1
    /\ Len(trades) >= 2
    /\ trades[1].reason \in {"stop_loss", "take_profit", "signal_exit"}
    /\ trades[Len(trades)].reason = FinalReason

\* The entry signal of bar idx (0-based), as each function reads it.
EntrySignalAt(idx) ==
    IF engine = "signals" THEN entry_signal[idx + 1]
    ELSE _entry_signal(df, idx, params.signal_mode)

\* The last bar is about to be processed under next_open and its entry
\* triggers: flat at the entry gate, cooldown zero, ATR defined, signal true.
LastBarEntryTriggers ==
    /\ pc = "loop"
    /\ i = len_df - 1
    /\ params.entry_mode = "next_open"
    /\ \/ ~in_position /\ cooldown = 0
       \/ /\ in_position
          /\ params.cooldown_candles = 0
          /\ Len(trades') = Len(trades) + 1
    /\ ~isnan(df[i + 1].atr)
    /\ EntrySignalAt(i)

\* C3: under next_open an entry that triggers on the last bar is filled at
\* that bar's own close and timestamp, and no run ever fails on a read past
\* the end of the series.
C3_LastBarFillsAtClose ==
    /\ [][LastBarEntryTriggers =>
              /\ pc' = "loop"
              /\ in_position'
              /\ fills' = fills + 1
              /\ entry_price_raw' = df[i + 1].close
              /\ entry_ts' = df[i + 1].ts
              /\ states'[i + 1].action = "ENTRY"]_vars
    /\ [](err # "KeyError")

C3_Witness ==
    /\ pc = "done"
    /\ params.entry_mode = "next_open"
    /\ states[len_df].action = "ENTRY"
    /\ entry_ts = df[len_df].ts
    /\ entry_price_raw = df[len_df].close
    /\ trades[Len(trades)].entry_ts = df[len_df].ts

RECURSIVE SumPnl(_)
SumPnl(ts) == IF ts = << >> THEN Zero ELSE RAdd(ts[1].pnl, SumPnl(Tail(ts)))

\* C4: after a completed run the last equity sample equals the ending cash,
\* and that value equals starting cash minus all entry and exit fees charged
\* plus the sum of the pnl values of the trade list (in exact arithmetic).
C4_CashConservation ==
    pc = "done" =>
        /\ states[len_df].equity = cash
        /\ cash = RAdd(RSub(params.initial_cash, fees_paid), SumPnl(trades))

C4_Witness ==
    /\ pc = "done"
    /\ params.fee_per_side # Zero
    /\ Len(trades) >= 2
    /\ trades[Len(trades)].reason = FinalReason
    /\ fees_paid # Zero
    /\ cash # params.initial_cash

C6_OneRecordPerFill ==
    [][/\ pc = "loop" => /\ Len(trades') >= Len(trades)
                         /\ SubSeq(trades', 1, Len(trades)) = trades
       /\ pc' = "done" => Len(trades') = fills']_vars

C6_Witness ==
    /\ pc = "done"
    /\ fills >= 2
    /\ Len(trades) = fills
    /\ trades[Len(trades)].reason = FinalReason

\* The last trade closes, with the given tag, the position left open by the
\* last candle at the final close, and every reason is one of the four tags.
ForcedCloseTagged(tag) ==
    pc = "done" =>
        /\ states[len_df].position = 1 =>
               /\ Len(trades) >= 1
               /\ trades[Len(trades)].reason = tag
               /\ trades[Len(trades)].exit = Round8(df[len_df].close)
               /\ trades[Len(trades)].exit_ts = df[len_df].ts
        /\ \A j \in 1..Len(trades) :
               trades[j].reason \in {"stop_loss", "take_profit", "signal_exit", tag}

\* C7 (as stated): a position still open after the last candle is closed at
\* the final close with the tag end_of_period, and every trade's reason is one
\* of stop_loss, take_profit, signal_exit, end_of_period.
C7_EndOfPeriod == ForcedCloseTagged("end_of_period")

\* C7 (amended): a position still open after the last candle is closed at the
\* final close with the tag end_of_test, and every trade's reason is one of
\* stop_loss, take_profit, signal_exit, end_of_test.
C7_EndOfTest == ForcedCloseTagged("end_of_test")

C7_Witness ==
    /\ pc = "done"
    /\ states[len_df].position = 1
    /\ Len(trades) >= 2
    /\ trades[Len(trades)].exit_ts = df[len_df].ts
    /\ trades[Len(trades)].reason = "end_of_test"

\* C8 (as stated): after an in-loop exit on bar e with cooldown_candles
\* N >= 1, no position is opened on any of the bars e+1 .. e+N.
C8_CooldownBlocksNBars ==
    \A j \in 1..Len(trades), e \in 1..Len(states) :
        (/\ trades[j].reason \in {"stop_loss", "take_profit", "signal_exit"}
         /\ states[e].ts = trades[j].exit_ts
         /\ params.cooldown_candles >= 1)
            => \A k \in (e + 1)..(e + params.cooldown_candles) :
                   k <= Len(states) => states[k].action # "ENTRY"

\* The input of run_backtest_signals has one of the defects the validation
\* names.
Defective ==
    \/ len_df = 0
    \/ REQUIRED_COLUMNS \ columns # {}
    \/ len_entry # len_df
    \/ len_exit # len_df
    \/ nan_entry
    \/ nan_exit

ValidationErrors ==
    {"Input OHLCV data is empty",
     "Input OHLCV data is missing required columns",
     "Entry signal length must match OHLCV length",
     "Exit signal length must match OHLCV length",
     "Signals must not contain NaN values"}

FlatSeries ==
    /\ Len(ohlcv_df) = len_df
    /\ \A k \in 1..len_df :
           /\ ohlcv_df[k].open = ohlcv_df[1].close
           /\ ohlcv_df[k].high = ohlcv_df[1].close
           /\ ohlcv_df[k].low = ohlcv_df[1].close
           /\ ohlcv_df[k].close = ohlcv_df[1].close

\* C10 (as stated): on a flat series of any length the ATR is never defined,
\* no position is opened whatever the entry signal, the trade list is empty
\* and every equity sample equals starting cash.
C10_FlatSeriesNoTrades ==
    (pc \in {"loop", "done"} /\ FlatSeries) =>
        /\ \A k \in 1..Len(df) : isnan(df[k].atr)
        /\ fills = 0
        /\ trades = << >>
        /\ \A k \in 1..Len(states) : states[k].equity = params.initial_cash

\* The five-bar series of run_backtest: closes rise strictly on the first four
\* bars and stay strictly above the EMA once it has formed, and the low of
\* the last bar is below the fourth close by more than sl_mult true ranges.
FiveBarDrop ==
    /\ engine = "quick"
    /\ pc = "done"
    /\ len_df = 5
    /\ \A k \in 2..4 : /\ RGt(df[k].close, df[k - 1].close)
                       /\ RGt(df[k].close, df[k].ema)
    /\ \A k \in 1..4 :
           RLe(df[5].low,
               RSub(df[4].close, RMul(params.sl_mult, TrueRange(df, k))))

\* C11 (as stated): on that series the engine records one ENTRY action
\* followed by one EXIT:stop_loss action, and the single trade has its exit at
\* its stop price and a negative pnl.
C11_FiveBarStopLoss ==
    FiveBarDrop =>
        /\ \E a \in 1..Len(states), b \in 1..Len(states) :
               /\ a < b
               /\ \A k \in 1..Len(states) :
                      /\ states[k].action = "ENTRY" <=> k = a
                      /\ states[k].action = "EXIT:stop_loss" <=> k = b
        /\ Len(trades) = 1
        /\ trades[1].reason = "stop_loss"
        /\ trades[1].exit = Round8(trades[1].sl)
        /\ RLt(trades[1].pnl, Zero)

\* The three quantities the classification reads, as evaluate_run reads them.
AnnOf(e) == _num(e.metrics, "ann")
DdOf(e) == _num(e.metrics, "dd")
TradesOf(e) == IntOf(_num(e.metrics, "trades"))

RedCondition(e) ==
    \/ RLt(AnnOf(e), config.RET_MIN)
    \/ RGt(DdOf(e), config.DD_MAX)
    \/ TradesOf(e) < config.MIN_TRADES
GreenCondition(e) ==
    /\ RGe(AnnOf(e), config.RET_GOOD)
    /\ RLe(DdOf(e), config.DD_WARN)
    /\ TradesOf(e) >= config.MIN_TRADES

\* C12: evaluate_run gives every bundle exactly one status: RED iff return <
\* RET_MIN or drawdown > DD_MAX or trades < MIN_TRADES; otherwise GREEN iff
\* return >= RET_GOOD and drawdown <= DD_WARN and trades >= MIN_TRADES;
\* otherwise YELLOW.  RED wins when both conditions hold.
C12_Classification ==
    \A j \in 1..Len(scenarios_dict) :
        LET e == scenarios_dict[j]
        IN  /\ e.decision.status \in {"RED", "GREEN", "YELLOW"}
            /\ e.decision.status = "RED" <=> RedCondition(e)
            /\ e.decision.status = "GREEN" <=> (~RedCondition(e) /\ GreenCondition(e))
            /\ e.decision.status = "YELLOW" <=> (~RedCondition(e) /\ ~GreenCondition(e))

C12_Witness ==
    /\ Len(scenarios_dict) = 3
    /\ RedCondition(scenarios_dict[1])
    /\ GreenCondition(scenarios_dict[1])
    /\ scenarios_dict[1].decision.status = "RED"
    /\ scenarios_dict[2].decision.status = "GREEN"
    /\ scenarios_dict[3].metrics.ann = None

\* C13: two bundles that agree on annualized return, max drawdown and trade
\* count get the same status, whatever their expectancy, trades per week and
\* score.
C13_ScoreNotInStatus ==
    \A j \in 1..Len(scenarios_dict), k \in 1..Len(scenarios_dict) :
        (/\ AnnOf(scenarios_dict[j]) = AnnOf(scenarios_dict[k])
         /\ DdOf(scenarios_dict[j]) = DdOf(scenarios_dict[k])
         /\ TradesOf(scenarios_dict[j]) = TradesOf(scenarios_dict[k]))
            => scenarios_dict[j].decision.status = scenarios_dict[k].decision.status

C13_Witness ==
    /\ Len(scenarios_dict) >= 2
    /\ AnnOf(scenarios_dict[1]) = AnnOf(scenarios_dict[2])
    /\ DdOf(scenarios_dict[1]) = DdOf(scenarios_dict[2])
    /\ TradesOf(scenarios_dict[1]) = TradesOf(scenarios_dict[2])
    /\ scenarios_dict[1].metrics.exp # scenarios_dict[2].metrics.exp
    /\ scenarios_dict[1].metrics.tpw # scenarios_dict[2].metrics.tpw
    /\ scenarios_dict[1].decision.score # scenarios_dict[2].decision.score
    /\ scenarios_dict[1].decision.status = "GREEN"
    /\ scenarios_dict[2].decision.status = "GREEN"

\* The scenario final_decision recommends, and the statuses it was given.
RecommendedEntry ==
    scenarios_dict[CHOOSE j \in 1..Len(scenarios_dict) :
                       scenarios_dict[j].key = final.recommended]
SomeStatus(st) ==
    \E j \in 1..Len(scenarios_dict) : scenarios_dict[j].decision.status = st
EveryRed ==
    \A j \in 1..Len(scenarios_dict) : scenarios_dict[j].decision.status = "RED"
GreenOf(k) == StatusGet(scenarios_dict, k) = "GREEN"

\* C14: whenever at least one of the scenarios A, B, C is GREEN, final_decision
\* labels INVEST and recommends B if B is GREEN, else A if A is GREEN, else C.
C14_GreenPriority ==
    (final # NoFinal /\ SomeStatus("GREEN")) =>
        /\ final.label = "INVEST"
        /\ final.recommended =
               IF GreenOf("B") THEN "B" ELSE IF GreenOf("A") THEN "A" ELSE "C"
        /\ RecommendedEntry.decision.status = "GREEN"

C14_Witness ==
    /\ final # NoFinal
    /\ GreenOf("A")
    /\ GreenOf("B")
    /\ GreenOf("C")
    /\ final.label = "INVEST"
    /\ final.recommended = "B"

\* C15: final_decision returns the label NO if and only if every scenario of
\* its input has status RED.
C15_NoIffAllRed ==
    final # NoFinal => (final.label = "NO" <=> EveryRed)

C15_Witness ==
    /\ final # NoFinal
    /\ final.label = "CAUTION"
    /\ scenarios_dict[1].decision.status = "RED"
    /\ scenarios_dict[2].decision.status = "RED"
    /\ scenarios_dict[3].decision.status = "YELLOW"

\* No YELLOW scenario has a higher score than the recommended one, which is
\* YELLOW itself.
BestYellowRecommended ==
    /\ RecommendedEntry.decision.status = "YELLOW"
    /\ \A j \in 1..Len(scenarios_dict) :
           scenarios_dict[j].decision.status = "YELLOW"
               => RLe(scenarios_dict[j].decision.score,
                      RecommendedEntry.decision.score)

\* No scenario has a higher annualized return than the recommended one, nor
\* the same return with a lower drawdown.
BestReturnRecommended ==
    \A j \in 1..Len(scenarios_dict) :
        /\ RLe(AnnOf(scenarios_dict[j]), AnnOf(RecommendedEntry))
        /\ AnnOf(scenarios_dict[j]) = AnnOf(RecommendedEntry)
               => RGe(DdOf(scenarios_dict[j]), DdOf(RecommendedEntry))

\* C16 (as stated): with no GREEN scenario and not every scenario RED the
\* label is CAUTION and the highest-score YELLOW scenario is recommended; with
\* no GREEN and no YELLOW scenario the scenario with the best annualized
\* return, then the lowest drawdown, is recommended and the label is CAUTION.
C16_CautionEvenWhenAllRed ==
    (final # NoFinal /\ ~SomeStatus("GREEN")) =>
        /\ ~EveryRed => (final.label = "CAUTION" /\ BestYellowRecommended)
        /\ ~SomeStatus("YELLOW") =>
               (final.label = "CAUTION" /\ BestReturnRecommended)

\* C16 (amended): with no GREEN scenario and not every scenario RED the label
\* is CAUTION and the highest-score YELLOW scenario is recommended; with no
\* GREEN and no YELLOW scenario, that is with every scenario RED, the scenario
\* with the best annualized return, then the lowest drawdown, is recommended
\* and the label is NO.
C16_CautionOrNo ==
    (final # NoFinal /\ ~SomeStatus("GREEN")) =>
        /\ ~EveryRed => (final.label = "CAUTION" /\ BestYellowRecommended)
        /\ ~SomeStatus("YELLOW") =>
               (final.label = "NO" /\ EveryRed /\ BestReturnRecommended)

C16_Witness ==
    /\ final # NoFinal
    /\ EveryRed
    /\ final.label = "NO"
    /\ final.recommended = "C"
    /\ RLt(AnnOf(scenarios_dict[1]), AnnOf(scenarios_dict[3]))
    /\ AnnOf(scenarios_dict[2]) = AnnOf(scenarios_dict[3])
    /\ RGt(DdOf(scenarios_dict[2]), DdOf(scenarios_dict[3]))

\* With two YELLOW scenarios of different scores the later, better one is
\* recommended.
C16_YellowReached ==
    /\ final # NoFinal
    /\ final.label = "CAUTION"
    /\ final.recommended = "C"
    /\ scenarios_dict[1].decision.status = "RED"
    /\ scenarios_dict[2].decision.status = "YELLOW"
    /\ scenarios_dict[3].decision.status = "YELLOW"
    /\ RLt(scenarios_dict[2].decision.score, scenarios_dict[3].decision.score)

\* The candidates run_scenarios returned as scenarios A, B and C.
ScenarioA == candidates[picked.A]
ScenarioB == candidates[picked.B]
ScenarioC == candidates[picked.C]

\* C17: for every outcome of the 12-combination grid the scenarios A, B and C
\* have pairwise distinct (timeframe, ema_window, signal_mode) signatures: the
\* grid never runs out of unused combinations.
C17_NoCollision ==
    picked # NoPicked =>
        /\ Len(candidates) = 12
        /\ \A j \in 1..Len(candidates), k \in 1..Len(candidates) :
               sig(candidates[j]) = sig(candidates[k]) => j = k
        /\ {picked.A, picked.B, picked.C} \subseteq 1..Len(candidates)
        /\ sig(ScenarioA) # sig(ScenarioB)
        /\ sig(ScenarioA) # sig(ScenarioC)
        /\ sig(ScenarioB) # sig(ScenarioC)

\* The combination taken as A is within the drawdown cap and has a higher
\* return than the one taken as B: B had to leave it alone.
C17_Witness ==
    /\ picked # NoPicked
    /\ RLe(ScenarioA.metrics.dd, config.DD_MAX)
    /\ RGt(ScenarioA.metrics.ann, ScenarioB.metrics.ann)
    /\ sig(ScenarioA) # sig(ScenarioB)

\* The combinations left to scenario B, and whether one of them is within the
\* drawdown cap.
LeftToB == {j \in 1..Len(candidates) : sig(candidates[j]) # sig(ScenarioA)}
SomeWithinCap ==
    \E j \in LeftToB : RLe(candidates[j].metrics.dd, config.DD_MAX)

\* C18: when no unused combination has max drawdown <= DD_MAX, B is the unused
\* combination of the best annualized return and its risk_exceeded flag is
\* true; when B is picked from the risk-capped pool its flag is false.
C18_RiskExceededFlag ==
    picked # NoPicked =>
        /\ ~SomeWithinCap =>
               /\ picked.B \in LeftToB
               /\ \A j \in LeftToB :
                      RLe(candidates[j].metrics.ann, ScenarioB.metrics.ann)
               /\ ScenarioB.risk_exceeded
        /\ SomeWithinCap =>
               /\ picked.B \in LeftToB
               /\ RLe(ScenarioB.metrics.dd, config.DD_MAX)
               /\ ~ScenarioB.risk_exceeded

\* The only combination within the cap was taken as A, so B comes from the
\* fallback and is marked.
C18_Witness ==
    /\ picked # NoPicked
    /\ RLe(ScenarioA.metrics.dd, config.DD_MAX)
    /\ ~SomeWithinCap
    /\ ScenarioB.risk_exceeded
    /\ RGt(ScenarioB.metrics.dd, config.DD_MAX)
    /\ ~ScenarioA.risk_exceeded

\* run_strategy_lab has returned a ranking (it did not raise).
Returned(t) == t # NoTop /\ "top_df" \in DOMAIN t

\* The objective metric of a returned row, and its direction.
ObjectiveKey == OBJECTIVES(lab.objective).sort_key
Ascending == lab.objective = "Min Drawdown"

\* Row x may stand right before row y in the ranking: its objective metric is
\* not worse (a missing Sharpe ratio stands last), and on equal metrics its
\* total return is not lower.
InRankOrder(x, y) ==
    LET a == x[ObjectiveKey]
        b == y[ObjectiveKey]
    IN  /\ isnan(a) => isnan(b)
        /\ (~isnan(a) /\ ~isnan(b)) => IF Ascending THEN RLe(a, b) ELSE RGe(a, b)
        /\ (a = b) => RGe(x.total_return_pct, y.total_return_pct)

\* C19: the rows run_strategy_lab returns are sorted by the objective's metric
\* in the objective's direction (Min Drawdown ascending; Sharpe, Return, Win
\* Rate descending), rows equal on that metric by total return descending;
\* a second call with the same candles, objective, max_runs and top_n returns
\* the same rows in the same order.
C19_RankedByObjective ==
    Returned(top) =>
        /\ \A n \in 1..(Len(top.top_df) - 1) :
               InRankOrder(top.top_df[n], top.top_df[n + 1])
        /\ lab_first # NoTop => top = lab_first

C19_Witness ==
    /\ Returned(top)
    /\ Returned(lab_first)
    /\ lab.objective = "Min Drawdown"
    /\ Len(top.top_df) = 3
    /\ top.top_df[1].candidate_id[2] = 2
    /\ top.top_df[2].candidate_id[2] = 1
    /\ top.top_df[3].candidate_id[2] = 0
    /\ top.top_df[2].max_drawdown_pct = top.top_df[3].max_drawdown_pct
    /\ RGt(top.top_df[2].total_return_pct, top.top_df[3].total_return_pct)
    /\ RLt(top.top_df[1].max_drawdown_pct, top.top_df[2].max_drawdown_pct)

\* The candidate ids of a sequence of rows or details.
IdsOf(seq) == {seq[n].candidate_id : n \in 1..Len(seq)}
Evaluated == IF lab.max_runs < Len(CandidatesOf(STRATEGIES))
             THEN lab.max_runs ELSE Len(CandidatesOf(STRATEGIES))

\* C20: run_strategy_lab returns min(top_n, number of evaluated candidates)
\* rows, none of them ranked behind a row it leaves out; the keys of the
\* returned details are exactly the candidate ids of the returned rows; the
\* candidate ids of the evaluated candidates are pairwise different.
C20_TopNWithDetails ==
    Returned(top) =>
        /\ Len(rows) = Evaluated
        /\ Len(top.top_df) = IF lab.top_n < Evaluated THEN lab.top_n ELSE Evaluated
        /\ \A n \in 1..Len(top.top_df) :
               \E j \in 1..Len(rows) : rows[j] = top.top_df[n]
        /\ \A j \in 1..Len(rows), n \in 1..Len(top.top_df) :
               rows[j].candidate_id \notin IdsOf(top.top_df)
                   => InRankOrder(top.top_df[n], rows[j])
        /\ IdsOf(top.top_details) = IdsOf(top.top_df)
        /\ Len(top.top_details) = Len(top.top_df)
        /\ Cardinality(IdsOf(top.top_df)) = Len(top.top_df)
        /\ \A j \in 1..Len(rows), k \in 1..Len(rows) :
               rows[j].candidate_id = rows[k].candidate_id => j = k

\* Three candidates of one family are evaluated, two rows are asked for, and
\* the candidate evaluated last is ranked first: the candidate evaluated first
\* is left out with its detail.
C20_Witness ==
    /\ Returned(top)
    /\ Len(rows) = 3
    /\ lab.top_n = 2
    /\ rows[1].strategy_id = rows[3].strategy_id
    /\ top.top_df[1].candidate_id = rows[3].candidate_id
    /\ top.top_df[2].candidate_id = rows[2].candidate_id
    /\ IdsOf(top.top_details) = {rows[2].candidate_id, rows[3].candidate_id}

\* More rows are asked for than the whole registry holds.
C20_WholeRegistry ==
    /\ Returned(top)
    /\ Len(rows) = Len(CandidatesOf(STRATEGIES))
    /\ lab.max_runs > Len(rows)
    /\ Len(top.top_df) = lab.top_n

\* The one fixed full ordering of the module called: the families in registry
\* order, each family's grid in Cartesian order.
FullOrdering ==
    CandidatesOf(IF gen.module = "core" THEN CORE_STRATEGIES ELSE STRATEGIES)
IsPrefix(a, b) == Len(a) <= Len(b) /\ a = SubSeq(b, 1, Len(a))

\* C21 (as stated): generate_candidates(max_runs) is the first
\* min(max_runs, total) elements of the full ordering for max_runs >= 1 and
\* is empty for a non-positive max_runs; a second call with the same bound
\* returns the same list, and the list for k is a prefix of the list for k+1.
C21_PrefixClosed ==
    (gen # NoUnit /\ gen.called) =>
        /\ gen.max_runs >= 1 =>
               /\ IsPrefix(gen.out, FullOrdering)
               /\ Len(gen.out) = IF gen.max_runs < Len(FullOrdering)
                                 THEN gen.max_runs ELSE Len(FullOrdering)
        /\ gen.max_runs <= 0 => gen.out = << >>
        /\ (gen.prev.called /\ gen.prev.max_runs = gen.max_runs)
               => gen.out = gen.prev.out
        /\ (gen.prev.called /\ gen.prev.max_runs + 1 = gen.max_runs)
               => IsPrefix(gen.prev.out, gen.out)

\* The number of leading bars on which a rule of the family has not the
\* history it needs: the channel window for the breakout rule, the RSI window
\* for mean reversion, the first bar for the two EMA rules.
EntryWarmUp ==
    CASE sgn.family = "donchian_breakout" -> sgn.params.breakout_window
      [] sgn.family = "rsi_mean_reversion" -> sgn.params.rsi_window
      [] OTHER -> 1
ExitWarmUp ==
    CASE sgn.family = "donchian_breakout" -> sgn.params.exit_window
      [] sgn.family = "rsi_mean_reversion" -> sgn.params.rsi_window
      [] OTHER -> 1

\* C22: for each of the four families and every series of n candles the
\* builder returns an entry and an exit sequence of length n, every element a
\* boolean, false on every bar that lacks the history the rule needs.
C22_SignalsDefined ==
    (sgn # NoUnit /\ sgn.called) =>
        /\ Len(sgn.entry) = Len(sgn.df)
        /\ Len(sgn.exit) = Len(sgn.df)
        /\ \A k \in 1..Len(sgn.df) :
               /\ sgn.entry[k] \in BOOLEAN
               /\ sgn.exit[k] \in BOOLEAN
               /\ k <= EntryWarmUp => ~sgn.entry[k]
               /\ k <= ExitWarmUp => ~sgn.exit[k]

\* A breakout with a two-bar channel: the second bar closes above the first
\* bar's high and gives no entry, the third closes above both and does.
C22_Witness ==
    /\ sgn # NoUnit
    /\ sgn.called
    /\ sgn.family = "donchian_breakout"
    /\ sgn.params.breakout_window = 2
    /\ Len(sgn.df) >= 3
    /\ RGt(sgn.df[2].close, sgn.df[1].high)
    /\ ~sgn.entry[1]
    /\ ~sgn.entry[2]
    /\ sgn.entry[3]

\* The trades summarize_metrics was given, by the sign of their pnl.
Winners == {k \in 1..Len(met.trades_df) : RGt(met.trades_df[k].pnl, Zero)}
Losers == {k \in 1..Len(met.trades_df) : RLt(met.trades_df[k].pnl, Zero)}
RECURSIVE SumPnlOver(_)
SumPnlOver(S) ==
    IF S = {} THEN Zero
    ELSE LET k == CHOOSE j \in S : TRUE
         IN  RAdd(met.trades_df[k].pnl, SumPnlOver(S \ {k}))
RECURSIVE SumPctOver(_)
SumPctOver(S) ==
    IF S = {} THEN Zero
    ELSE LET k == CHOOSE j \in S : TRUE
         IN  RAdd(met.trades_df[k].pnl_pct, SumPctOver(S \ {k}))

\* C23: summarize_metrics always returns a profit factor: infinite when some
\* trade has positive pnl and none negative; zero when no trade has positive
\* pnl (for a losing-only list the win rate is 0 too and the expectancy is the
\* mean pnl percent); otherwise the sum of the winning pnl divided by the
\* absolute sum of the losing pnl.
C23_ProfitFactorPolicy ==
    (met # NoUnit /\ met.out # NoMetrics) =>
        /\ (Winners # {} /\ Losers = {}) => met.out.profit_factor = Inf
        /\ Winners = {} => met.out.profit_factor = Zero
        /\ (Losers = DOMAIN met.trades_df /\ Losers # {}) =>
               /\ met.out.win_rate = Zero
               /\ met.out.expectancy =
                      RDiv(SumPctOver(Losers), Q(Cardinality(Losers)))
        /\ (Winners # {} /\ Losers # {}) =>
               met.out.profit_factor =
                   RDiv(SumPnlOver(Winners), RAbs(SumPnlOver(Losers)))

\* Three losing trades of different size.
C23_Witness ==
    /\ met # NoUnit
    /\ met.out # NoMetrics
    /\ Len(met.trades_df) = 3
    /\ Cardinality(Losers) = 3
    /\ met.trades_df[1].pnl # met.trades_df[2].pnl
    /\ met.out.profit_factor = Zero
    /\ met.out.win_rate = Zero
    /\ RLt(met.out.expectancy, Zero)

\* The invocations of fn so far, and whether the first k all failed with a
\* retryable exception.
Invocations == Len(fetch.outcomes)
RetryableUpTo(k) ==
    \A nth \in 1..k : fetch.outcomes[nth].kind \in RetryableKinds

\* C24: after k <= max_retries retryable failures fetch_with_retries is still
\* going to invoke fn; when the next invocation succeeds it returns that
\* invocation's result, having invoked fn exactly k + 1 times, and a
\* successful invocation is always the last one.
C24_RetriesThenSucceeds ==
    fetch # NoUnit =>
        /\ \A k \in 0..fetch.max_retries :
             /\ (Invocations = k /\ RetryableUpTo(k)) => fetch.status = "running"
             /\ (/\ Invocations = k + 1
                 /\ RetryableUpTo(k)
                 /\ fetch.outcomes[k + 1].kind = "return") =>
                    /\ fetch.status = "returned"
                    /\ fetch.result = fetch.outcomes[k + 1]
        /\ \A nth \in 1..Invocations :
             fetch.outcomes[nth].kind = "return" =>
                 /\ nth = Invocations
                 /\ fetch.status = "returned"

\* Two retryable failures, then the third invocation succeeds.
C24_Witness ==
    /\ fetch # NoUnit
    /\ fetch.max_retries = 3
    /\ Invocations = 3
    /\ RetryableUpTo(2)
    /\ fetch.status = "returned"
    /\ fetch.result = [kind |-> "return", id |-> 3]
    /\ Len(fetch.slept) = 2

\* C25: an exception that is_retryable_exception rejects ends the call: it
\* is the exception raised, and fn is not invoked after it, whatever number
\* of retries is left.
C25_NonRetryablePropagates ==
    fetch # NoUnit =>
        \A nth \in 1..Invocations :
            fetch.outcomes[nth].kind = "ValueError" =>
                /\ nth = Invocations
                /\ fetch.status = "raised"
                /\ fetch.raised = fetch.outcomes[nth]

\* A rejected exception on the second of four possible attempts.
C25_Witness ==
    /\ fetch # NoUnit
    /\ fetch.max_retries = 3
    /\ Invocations = 2
    /\ fetch.outcomes[1].kind = "RequestTimeout"
    /\ fetch.outcomes[2].kind = "ValueError"
    /\ fetch.status = "raised"
    /\ fetch.raised = [kind |-> "ValueError", id |-> 2]

\* Whether the storage holds a run's row, and all or none of its trade rows.
RunStored(run_id) == run_id \in store.runs
AllTradesStored(run_id) ==
    TradeRowsOf(run_id, store.todo[run_id]) \subseteq store.trades
NoTradeStored(run_id) ==
    TradeRowsOf(run_id, store.todo[run_id]) \cap store.trades = {}

\* C26: once the handler has returned or raised, every run handed to the
\* storage has its run row and all its trade rows stored, or nothing stored.
C26_AtomicWrite ==
    (store # NoUnit /\ store.pc \in {"returned", "raised"}) =>
        \A run_id \in DOMAIN store.todo :
            \/ RunStored(run_id) /\ AllTradesStored(run_id)
            \/ ~RunStored(run_id) /\ NoTradeStored(run_id)

\* Whether a key of the session state the guard was given holds a result.
Present(key) == session.guard.state[key].kind = "result"

\* C27: can_run_strategy_lab answers True exactly for a session state that
\* holds a quick-check result or a compare result; otherwise it answers
\* False together with a message.
C27_LabNeedsContext ==
    (session # NoUnit /\ session.guard.called) =>
        /\ session.guard.ok <=> (Present("quick_result") \/ Present("compare_result"))
        /\ ~session.guard.ok => session.guard.msg # "None"

\* The guard refuses a session whose two keys hold None after two failed
\* submissions.
C27_Witness ==
    /\ session # NoUnit
    /\ session.guard.called
    /\ session.guard.state.quick_result = PyNone
    /\ session.guard.state.compare_result = PyNone
    /\ ~session.guard.ok
    /\ session.guard.msg = GuardMessage
    /\ session.submits = 2

\* The exit signal of bar idx (0-based), as each function reads it.
ExitSignalAt(idx) ==
    IF engine = "signals" THEN exit_signal[idx + 1]
    ELSE _exit_signal(df, idx, params.signal_mode)

\* Bar k (1-based) is processed while a position is open.
OpenOn(k) == k \in 2..Len(states) /\ states[k - 1].position = 1
StopHit(k) == RLe(df[k].low, states[k - 1].sl)
TargetHit(k) == RGe(df[k].high, states[k - 1].tp)
\* The trades closed by the step of bar k (the close after the last bar is
\* not a step of a bar).
ExitsOn(k) ==
    {j \in 1..Len(trades) :
        trades[j].exit_ts = df[k].ts /\ trades[j].reason # FinalReason}

\* C28: on a bar processed while a position is open, a breach of the stop
\* alone closes it at the stop price as stop_loss, a breach of the target
\* alone at the target price as take_profit, the exit signal closes it at the
\* close as signal_exit exactly when neither is breached, and the bar closes
\* at most one trade.
C28_ExitPriority ==
    \A k \in 2..Len(states) :
        OpenOn(k) =>
            /\ Cardinality(ExitsOn(k)) <= 1
            /\ (StopHit(k) /\ ~TargetHit(k)) =>
                   \E j \in ExitsOn(k) :
                       /\ trades[j].reason = "stop_loss"
                       /\ trades[j].exit = Round8(states[k - 1].sl)
            /\ (TargetHit(k) /\ ~StopHit(k)) =>
                   \E j \in ExitsOn(k) :
                       /\ trades[j].reason = "take_profit"
                       /\ trades[j].exit = Round8(states[k - 1].tp)
            /\ \A j \in ExitsOn(k) :
                   trades[j].reason = "signal_exit" =>
                       /\ ~StopHit(k)
                       /\ ~TargetHit(k)
                       /\ ExitSignalAt(k - 1)
                       /\ trades[j].exit = Round8(df[k].close)
            /\ (ExitSignalAt(k - 1) /\ ~StopHit(k) /\ ~TargetHit(k)) =>
                   \E j \in ExitsOn(k) : trades[j].reason = "signal_exit"

\* A run with the exit signal true on a bar that breaches the target alone,
\* closed as take_profit.
C28_Witness ==
    /\ pc = "done"
    /\ engine = "signals"
    /\ \E k \in 2..Len(states) :
           /\ OpenOn(k)
           /\ TargetHit(k)
           /\ ~StopHit(k)
           /\ exit_signal[k]
           /\ \E j \in ExitsOn(k) : trades[j].reason = "take_profit"

\* The bar at 1-based position k left the engine flat with the starting cash.
Untouched(k) ==
    /\ states[k].position = 0
    /\ states[k].action = "HOLD"
    /\ states[k].equity = params.initial_cash

\* C29: a bar whose 14-bar ATR is undefined opens no position; the first 13
\* bars of a series are such bars, and a completed run on fewer than 14 bars
\* has no trade and an equity of the starting cash on every bar.
C29_NoEntryWithoutAtr ==
    /\ \A k \in 1..Len(states) :
           (isnan(df[k].atr) \/ k < AtrWindow) => Untouched(k)
    /\ Len(states) < AtrWindow => (fills = 0 /\ ~in_position)
    /\ \A k \in 1..Len(df) : k < AtrWindow => isnan(df[k].atr)
    /\ \A j \in 1..Len(trades) : trades[j].entry_ts >= df[AtrWindow].ts
    /\ (pc = "done" /\ len_df < AtrWindow) =>
           /\ trades = << >>
           /\ Len(states) = len_df
           /\ \A k \in 1..len_df : states[k].equity = params.initial_cash

\* A completed run on 13 bars with the entry signal true on each of them.
C29_Witness ==
    /\ pc = "done"
    /\ engine = "signals"
    /\ len_df = AtrWindow - 1
    /\ \A k \in 1..len_df : entry_signal[k] /\ Untouched(k)
    /\ trades = << >>

\* The combinations left to scenario B that are within the drawdown cap.
WithinCapLeftToB ==
    {j \in LeftToB : RLe(candidates[j].metrics.dd, config.DD_MAX)}

\* C30: when a combination other than A is within the drawdown cap, B is one
\* of those combinations and none of them has a higher annualized return.
C30_BestReturnWithinCap ==
    (picked # NoPicked /\ WithinCapLeftToB # {}) =>
        /\ picked.B \in WithinCapLeftToB
        /\ \A j \in WithinCapLeftToB :
               RGe(ScenarioB.metrics.ann, candidates[j].metrics.ann)

\* B is within the cap although an unused combination beyond the cap has a
\* higher return, and another combination within the cap was left for C.
C30_Witness ==
    /\ picked # NoPicked
    /\ picked.B \in WithinCapLeftToB
    /\ Cardinality(WithinCapLeftToB) >= 2
    /\ \E j \in LeftToB :
           /\ RGt(candidates[j].metrics.dd, config.DD_MAX)
           /\ RGt(candidates[j].metrics.ann, ScenarioB.metrics.ann)

\* The trade count summarize_metrics was given.
TradeCount == Len(met.trades_df)

\* C31 (as stated): trades per week is the trade count divided by
\* (days / 7) with the days floored at 1, for every test_days.
C31_DaysFlooredAtOne ==
    (met # NoUnit /\ met.out # NoMetrics) =>
        met.out.trades_per_week =
            RDiv(Q(TradeCount),
                 RDiv(Q(IF met.test_days < 1 THEN 1 ELSE met.test_days), Q(7)))

\* C31 (amended): the number of weeks, not of days, is floored at 1: for a
\* period of 7 days or more trades per week is count * 7 / test_days, and for
\* a shorter period it is the trade count itself.
C31_WeeksFlooredAtOne ==
    (met # NoUnit /\ met.out # NoMetrics) =>
        met.out.trades_per_week =
            IF met.test_days >= 7
            THEN Frac(TradeCount * 7, met.test_days)
            ELSE Q(TradeCount)

\* Three trades in a period of three days: three trades per week.
C31_Witness ==
    /\ met # NoUnit
    /\ met.out # NoMetrics
    /\ met.test_days = 3
    /\ TradeCount = 3
    /\ met.out.trades_per_week = Q(3)

\* The close of the bar at 1-based position k is above (below) its EMA.
Above(k) == RGt(df[k].close, df[k].ema)
Below(k) == RLt(df[k].close, df[k].ema)

\* C32: in the quick engine the strict entry (exit) signal of bar idx is true
\* exactly when idx >= 1 and the close is above (below) the EMA on bars idx
\* and idx - 1; the relaxed signal exactly when it is on bar idx alone; and a
\* bar whose sample records an ENTRY has the entry signal of the run's mode.
C32_TwoBarConfirmation ==
    (engine = "quick" /\ pc \in {"loop", "done"}) =>
        /\ \A idx \in 0..(Len(df) - 1) :
               /\ _entry_signal(df, idx, "strict")
                      <=> (idx >= 1 /\ Above(idx + 1) /\ Above(idx))
               /\ _exit_signal(df, idx, "strict")
                      <=> (idx >= 1 /\ Below(idx + 1) /\ Below(idx))
               /\ _entry_signal(df, idx, "relaxed") <=> Above(idx + 1)
               /\ _exit_signal(df, idx, "relaxed") <=> Below(idx + 1)
        /\ \A k \in 1..Len(states) :
               states[k].action = "ENTRY" =>
                   /\ Above(k)
                   /\ params.signal_mode = "strict" => (k >= 2 /\ Above(k - 1))

\* A strict run whose close rises above the EMA on the last two bars: no
\* entry on the first of them, an entry on the second.
C32_Witness ==
    /\ engine = "quick"
    /\ pc = "done"
    /\ params.signal_mode = "strict"
    /\ len_df = AtrWindow + 2
    /\ ~Above(len_df - 2)
    /\ Above(len_df - 1)
    /\ Above(len_df)
    /\ states[len_df - 1].action = "HOLD"
    /\ states[len_df].action = "ENTRY"

\* C33 (as stated): the delays slept grow exponentially: each delay is the
\* same multiple, greater than one, of the delay before it.
C33_ExponentialBackoff ==
    (fetch # NoUnit /\ fetch.backoff_s > 0) =>
        /\ \A k \in 1..(Len(fetch.slept) - 1) : fetch.slept[k + 1] > fetch.slept[k]
        /\ \A k \in 2..(Len(fetch.slept) - 1) :
               fetch.slept[k] * fetch.slept[k] = fetch.slept[k - 1] * fetch.slept[k + 1]

\* C33 (amended): the delays grow linearly: the delay slept after the k-th
\* consecutive retryable failure is k times backoff_s.
C33_LinearBackoff ==
    fetch # NoUnit =>
        /\ \A k \in 1..Len(fetch.slept) : fetch.slept[k] = k * fetch.backoff_s
        /\ fetch.status = "running" => Len(fetch.slept) = Invocations

\* Three retryable failures with backoff_s = 2: delays of 2, 4 and 6 seconds.
C33_Witness ==
    /\ fetch # NoUnit
    /\ fetch.backoff_s = 2
    /\ Invocations = 3
    /\ RetryableUpTo(3)
    /\ fetch.slept = <<2, 4, 6>>

\* C38 (as stated): fetch_with_retries invokes fn at most max_retries + 1
\* times and ends only by returning the value fn returned on its last
\* invocation or by raising the exception of its last invocation.
C38_EndsByFn ==
    fetch # NoUnit =>
        /\ Invocations <= fetch.max_retries + 1
        /\ fetch.status = "returned" =>
               /\ Invocations >= 1
               /\ fetch.outcomes[Invocations].kind = "return"
               /\ fetch.result = fetch.outcomes[Invocations]
        /\ fetch.status = "raised" =>
               /\ Invocations >= 1
               /\ fetch.outcomes[Invocations].kind # "return"
               /\ fetch.raised = fetch.outcomes[Invocations]

\* The evaluations of the sweep that do not raise, in order.
Healthy == SelectSeq([j \in 1..sweep.size |-> j], LAMBDA j : j \notin sweep.failing)

\* C34 (as stated): when the sweep has ended, every evaluation that does not
\* raise has been evaluated and returned, and exactly the raising ones are
\* reported.
C34_FailureIsolation ==
    (sweep # NoUnit /\ sweep.pc \in {"returned", "failed"}) =>
        /\ sweep.returned = Healthy
        /\ sweep.errors = sweep.failing

\* C35: every trade record has entry_ts <= exit_ts, and each trade's exit_ts
\* is at or before the entry_ts of the trade after it.
C35_ChronologicalTrades ==
    /\ \A j \in 1..Len(trades) : trades[j].entry_ts <= trades[j].exit_ts
    /\ \A j \in 1..(Len(trades) - 1) : trades[j].exit_ts <= trades[j + 1].entry_ts

\* A next_open run with two trades: the first is closed on the bar it was
\* filled on, and the entry decided on that bar is filled on the next one.
C35_Witness ==
    /\ pc = "done"
    /\ params.entry_mode = "next_open"
    /\ Len(trades) = 2
    /\ trades[1].entry_ts = trades[1].exit_ts
    /\ trades[1].reason = "stop_loss"
    /\ trades[1].exit_ts < trades[2].entry_ts

\* BarSample is the sample LoopBar appends: whenever a bar that has a
\* successor is processed, the new sample is BarSample of that successor.
BarSampleIsLoopBar ==
    [][(pc = "loop" /\ i + 1 < len_df /\ i' = i + 1)
          => states'[i + 1] = BarSample(ohlcv_df'[i + 2])]_vars

\* C36 (as stated): the equity sample of a bar is the same whatever the bar
\* after it is: two series that agree up to the bar at hand give it the
\* same sample.
C36_NoLookAhead ==
    (pc = "loop" /\ i + 1 < len_df) =>
        \A n1 \in RowChoices(i + 1), n2 \in RowChoices(i + 1) :
            BarSample(n1.row) = BarSample(n2.row)

\* The samples that record an exit or an entry, and the trades closed inside
\* the loop.
ExitSamples ==
    {k \in 1..Len(states) :
        states[k].action \in {"EXIT:stop_loss", "EXIT:take_profit", "EXIT:signal_exit"}}
EntrySamples == {k \in 1..Len(states) : states[k].action = "ENTRY"}
LoopExits ==
    {j \in 1..Len(trades) :
        trades[j].reason \in {"stop_loss", "take_profit", "signal_exit"}}

\* C37 (as stated): in a completed run there are as many samples with an
\* EXIT action as trades closed inside the loop, and as many samples with
\* the ENTRY action as trade records, for every cooldown length.
C37_ExitsVisible ==
    pc = "done" =>
        /\ Cardinality(ExitSamples) = Cardinality(LoopExits)
        /\ Cardinality(EntrySamples) = Len(trades)

\* A dict somewhere in the value has a key whose lower-cased name is
\* sensitive.
RECURSIVE HasSensitiveKey(_)
HasSensitiveKey(v) ==
    \E k \in 1..Len(v.items) :
        \/ v.kind = "dict" /\ Lower(v.items[k].key) \in SENSITIVE_KEYS
        \/ HasSensitiveKey(v.items[k])

\* C39: after sanitize_meta no dict at any depth of the logged value has a
\* key whose lower-cased name is in SENSITIVE_KEYS.
C39_NoSensitiveKeyAnywhere ==
    (meta # NoUnit /\ meta.pc = "logged") => ~HasSensitiveKey(meta.out)

\* The bar on which the open position was entered: the last sample whose
\* action is ENTRY.
EntryBar ==
    CHOOSE k \in 1..Len(states) :
        /\ states[k].action = "ENTRY"
        /\ \A j \in (k + 1)..Len(states) : states[j].action # "ENTRY"

\* At least one bar has been processed and the loop has not been left.
AfterBar == engine # "none" /\ pc = "loop" /\ i >= 1 /\ Len(states) = i

\* C40: after every bar the engine is flat with no units and cash >= 0, or in
\* a position with cash 0, units > 0 and a defined stop and target with
\* stop <= entry price <= target, strictly when the ATR of the entry bar and
\* both multiples are positive; no equity sample is negative.
C40_EngineStateInvariant ==
    /\ AfterBar =>
        IF in_position
        THEN /\ cash = Zero
             /\ RGt(units, Zero)
             /\ ~isnan(sl) /\ ~isnan(tp)
             /\ RLe(sl, entry_price_raw) /\ RLe(entry_price_raw, tp)
             /\ (/\ RGt(states[EntryBar].atr, Zero)
                 /\ RGt(params.sl_mult, Zero)
                 /\ RGt(params.tp_mult, Zero))
                    => (RLt(sl, entry_price_raw) /\ RLt(entry_price_raw, tp))
        ELSE units = Zero /\ RGe(cash, Zero)
    /\ (engine # "none" /\ pc \in {"loop", "done"}) =>
        \A k \in 1..Len(states) : RGe(states[k].equity, Zero)

\* A position entered with a positive ATR is open after a bar, a trade has
\* already been closed before it, and fees were charged.
C40_Witness ==
    /\ AfterBar
    /\ in_position
    /\ RGt(states[EntryBar].atr, Zero)
    /\ RLt(sl, entry_price_raw)
    /\ Len(trades) >= 1
    /\ params.fee_per_side # Zero
    /\ RLt(states[i].equity, Q(1))
====
